---- MODULE Spec2Model ----
(***************************************************************************)
(* Model of the semantic matching engine of ETL_ET: the EmbeddingCache and *)
(* the embedding provider (src/match/embedder.py), score fusion            *)
(* (src/match/scoring.py) and the SemanticMatcher (src/match/matcher.py),  *)
(* with the collaborators whose rules it shares: code normalisation        *)
(* (src/utils/text_norm.py), the parser's unit normalisation               *)
(* (src/parse/rubro_parser.py) and the dedupe engine                       *)
(* (src/dedupe/dedupe_engine.py).                                          *)
(*                                                                         *)
(* Numbers.  Python floats are modelled as exact fixed-point integers:     *)
(*   - a signal in [0,1] (semantic, code_match, unit_match, a weight) is   *)
(*     an integer number of hundredths (1.0 = ONE = 100);                  *)
(*   - a raw fuzzy score is an integer in 0..100, as rapidfuzz reports it; *)
(*   - a combined score, and a threshold it is compared with, is a number  *)
(*     of ten-thousandths (weight * signal; 1.0 = ONE * ONE = 10000);      *)
(*   - a vector is a pair of integers, a unit vector has norm ONE.         *)
(* Strings are sequences of one-character strings.                         *)
(***************************************************************************)
EXTENDS Integers, Sequences, FiniteSets, TLC

ONE == 100

FULL == ONE * ONE

Min(a, b) == IF a <= b THEN a ELSE b

Max(a, b) == IF a >= b THEN a ELSE b

\* A local variable: v is evaluated once and F is applied to its value.
Bind(v, F(_)) == CHOOSE r \in {F(x) : x \in {v}} : TRUE

\* Python Optional values: None is the empty tuple, a present value v is <<v>>.
None == <<>>

Some(v) == <<v>>

Val(o) == o[1]

(***************************************************************************)
(* Python string methods used by the code.                                 *)
(***************************************************************************)
LowerChar(c) ==
  CASE c = "A" -> "a" [] c = "B" -> "b" [] c = "E" -> "e" [] c = "K" -> "k"
    [] c = "G" -> "g" [] c = "M" -> "m" [] c = "U" -> "u" [] c = "X" -> "x"
    [] c = "D" -> "d" [] c = "I" -> "i" [] c = "N" -> "n" [] c = "O" -> "o"
    [] c = "L" -> "l" [] c = "Z" -> "z"
    [] OTHER -> c

lower(s) == [i \in 1..Len(s) |-> LowerChar(s[i])]

IsSpace(c) == c = " "

RECURSIVE lstrip(_)
lstrip(s) ==
  IF s = <<>> THEN <<>>
  ELSE IF IsSpace(Head(s)) THEN lstrip(Tail(s)) ELSE s

RECURSIVE rstrip(_)
rstrip(s) ==
  IF s = <<>> THEN <<>>
  ELSE IF IsSpace(s[Len(s)]) THEN rstrip(SubSeq(s, 1, Len(s) - 1)) ELSE s

strip(s) == rstrip(lstrip(s))

RECURSIVE remove_spaces(_)
remove_spaces(s) ==
  IF s = <<>> THEN <<>>
  ELSE IF Head(s) = " " THEN remove_spaces(Tail(s))
       ELSE <<Head(s)>> \o remove_spaces(Tail(s))

(***************************************************************************)
(* src/utils/text_norm.py: the code normalisation the corpus loader and    *)
(* the dedupe engine share.  The regular expressions are modelled by what  *)
(* re.sub and re.findall do with them: leftmost, non-overlapping matches.  *)
(***************************************************************************)
IsDigit(c) == c \in {"0", "1", "2", "3", "4", "5", "6", "7", "8", "9"}

\* \w of the re module, over the characters the model uses.
IsWord(c) ==
  \/ IsDigit(c)
  \/ c \in {"a", "b", "c", "d", "e", "g", "i", "k", "l", "m", "n", "o", "u", "x", "z",
            "A", "B", "C", "D", "E", "G", "H", "I", "K", "L", "M", "N", "O", "S", "U",
            "X", "Z", "_"}

\* re.sub(r'\bO(\d)', r'0\1', s), scanning from position i.
RECURSIVE sub_O_at_word_start(_, _)
sub_O_at_word_start(s, i) ==
  IF i > Len(s) THEN <<>>
  ELSE IF /\ s[i] = "O"
          /\ (i = 1 \/ ~IsWord(s[i - 1]))
          /\ i < Len(s)
          /\ IsDigit(s[i + 1])
       THEN <<"0", s[i + 1]>> \o sub_O_at_word_start(s, i + 2)
       ELSE <<s[i]>> \o sub_O_at_word_start(s, i + 1)

\* re.sub(r'(\d)X(\d)', r'\g<1>Y\2', s) for a letter X and a digit Y.
RECURSIVE sub_between_digits(_, _, _, _)
sub_between_digits(s, i, X, Y) ==
  IF i > Len(s) THEN <<>>
  ELSE IF /\ i + 2 <= Len(s)
          /\ IsDigit(s[i])
          /\ s[i + 1] = X
          /\ IsDigit(s[i + 2])
       THEN <<s[i], Y, s[i + 2]>> \o sub_between_digits(s, i + 3, X, Y)
       ELSE <<s[i]>> \o sub_between_digits(s, i + 1, X, Y)

\* re.sub(r'(\d)l\b', r'\g<1>1', s), scanning from position i.
RECURSIVE sub_l_at_word_end(_, _)
sub_l_at_word_end(s, i) ==
  IF i > Len(s) THEN <<>>
  ELSE IF /\ i + 1 <= Len(s)
          /\ IsDigit(s[i])
          /\ s[i + 1] = "l"
          /\ (i + 1 = Len(s) \/ ~IsWord(s[i + 2]))
       THEN <<s[i], "1">> \o sub_l_at_word_end(s, i + 2)
       ELSE <<s[i]>> \o sub_l_at_word_end(s, i + 1)

fix_ocr_errors(text) ==
  LET o1 == sub_O_at_word_start(text, 1)
      o2 == sub_between_digits(o1, 1, "O", "0")
      l1 == sub_between_digits(o2, 1, "l", "1")
      l2 == sub_l_at_word_end(l1, 1)
  IN  sub_between_digits(l2, 1, "I", "1")

IsSeparator(c) == c = "-" \/ IsSpace(c)

\* re.sub(r'[\-\s]+', '.', s): each run of separators becomes one point.
RECURSIVE sub_separators(_)
sub_separators(s) ==
  IF s = <<>> THEN <<>>
  ELSE IF IsSeparator(Head(s))
       THEN IF Len(s) >= 2 /\ IsSeparator(s[2])
            THEN sub_separators(Tail(s))
            ELSE <<".">> \o sub_separators(Tail(s))
       ELSE <<Head(s)>> \o sub_separators(Tail(s))

\* re.findall(r'\d+', s): the maximal runs of digits, left to right; run is
\* the run being read.
RECURSIVE findall_digits(_, _)
findall_digits(s, run) ==
  IF s = <<>> THEN (IF run = <<>> THEN <<>> ELSE <<run>>)
  ELSE IF IsDigit(Head(s)) THEN findall_digits(Tail(s), Append(run, Head(s)))
       ELSE (IF run = <<>> THEN <<>> ELSE <<run>>) \o findall_digits(Tail(s), <<>>)

\* str.zfill(width) of a run of digits.
RECURSIVE zfill(_, _)
zfill(part, width) ==
  IF Len(part) >= width THEN part ELSE zfill(<<"0">> \o part, width)

\* '.'.join(parts)
RECURSIVE join_points(_)
join_points(parts) ==
  IF parts = <<>> THEN <<>>
  ELSE IF Len(parts) = 1 THEN parts[1]
       ELSE parts[1] \o <<".">> \o join_points(Tail(parts))

normalize_rubro_code(code) ==
  LET cleaned == sub_separators(fix_ocr_errors(strip(code)))
      parts == findall_digits(cleaned, <<>>)
      parts_padded == [i \in 1..Len(parts) |-> zfill(parts[i], 2)]
      parts_final == SubSeq(parts_padded, 1, Min(3, Len(parts_padded)))
  IN  IF Len(parts) < 2 THEN cleaned ELSE join_points(parts_final)

(***************************************************************************)
(* src/match/scoring.py                                                    *)
(***************************************************************************)
DefaultWeights == [semantic |-> 70, fuzzy |-> 20, code_match |-> 5, unit_match |-> 5]

\* Variant that compares the sum with 1.0 exactly, without the tolerance.
ScoringWeights_post_init_exact(w) ==
  w.semantic + w.fuzzy + w.code_match + w.unit_match = ONE

\* ScoringWeights.__post_init__: TRUE when construction succeeds.
ScoringWeights_post_init(w) ==
  LET total == w.semantic + w.fuzzy + w.code_match + w.unit_match
  IN  99 <= total /\ total <= 101

normalize_fuzzy_score(fuzzy_score) == (fuzzy_score * ONE) \div 100

\* Variant that compares the codes without lowering their case.
code_similarity_case_sensitive(code1, code2) ==
  IF code1 = None \/ code2 = None THEN 0
  ELSE LET c1 == remove_spaces(strip(Val(code1)))
           c2 == remove_spaces(strip(Val(code2)))
       IN  IF c1 = c2 THEN ONE ELSE 0

code_similarity(code1, code2) ==
  IF code1 = None \/ code2 = None THEN 0
  ELSE LET c1 == remove_spaces(lower(strip(Val(code1))))
           c2 == remove_spaces(lower(strip(Val(code2))))
       IN  IF c1 = c2 THEN ONE ELSE 0

compatible_pairs ==
  << <<(<<"m", "2">>), (<<"m", "sup2">>)>>,
     <<(<<"m", "^", "2">>), (<<"m", "sup2">>)>>,
     <<(<<"m", "3">>), (<<"m", "sup3">>)>>,
     <<(<<"m", "^", "3">>), (<<"m", "sup3">>)>>,
     <<(<<"k", "g">>), (<<"k", "i", "l", "o", "g", "r", "a", "m", "o">>)>>,
     <<(<<"k", "g", "s">>), (<<"k", "g">>)>>,
     <<(<<"u">>), (<<"u", "n", "d">>)>>,
     <<(<<"u">>), (<<"u", "n", "i", "d", "a", "d">>)>>,
     <<(<<"u", "n", "d">>), (<<"u", "n", "i", "d", "a", "d">>)>> >>

\* Variant that looks a compatible pair up in the listed order only.
unit_similarity_one_direction(unit1, unit2) ==
  IF unit1 = None \/ unit2 = None THEN 0
  ELSE LET u1 == lower(strip(Val(unit1)))
           u2 == lower(strip(Val(unit2)))
       IN  IF u1 = u2 THEN ONE
           ELSE IF \E i \in 1..Len(compatible_pairs) :
                     u1 = compatible_pairs[i][1] /\ u2 = compatible_pairs[i][2]
                THEN ONE \div 2
                ELSE 0

unit_similarity(unit1, unit2) ==
  IF unit1 = None \/ unit2 = None THEN 0
  ELSE LET u1 == lower(strip(Val(unit1)))
           u2 == lower(strip(Val(unit2)))
       IN  IF u1 = u2 THEN ONE
           ELSE IF \E i \in 1..Len(compatible_pairs) :
                     \/ (u1 = compatible_pairs[i][1] /\ u2 = compatible_pairs[i][2])
                     \/ (u1 = compatible_pairs[i][2] /\ u2 = compatible_pairs[i][1])
                THEN ONE \div 2
                ELSE 0

\* combined_score with an explicit weights object (in ten-thousandths).
combined_score(semantic_score, fuzzy_score, code_match, unit_match, weights) ==
  LET fuzzy_normalized == normalize_fuzzy_score(fuzzy_score)
  IN  weights.semantic * semantic_score
      + weights.fuzzy * fuzzy_normalized
      + weights.code_match * code_match
      + weights.unit_match * unit_match

get_match_method(semantic_score, fuzzy_score, code_match) ==
  LET fuzzy_normalized == normalize_fuzzy_score(fuzzy_score)
  IN  IF code_match * 10 >= 9 * ONE THEN "code"
      ELSE IF semantic_score * 10 > fuzzy_normalized * 10 + ONE THEN "semantic"
      ELSE IF fuzzy_normalized * 10 > semantic_score * 10 + ONE THEN "fuzzy"
      ELSE "hybrid"

\* The default of is_ambiguous's threshold_diff, 0.05, in ten-thousandths.
DEFAULT_THRESHOLD_DIFF == 500

\* is_ambiguous(top_scores, threshold_diff) over scores in ten-thousandths.
is_ambiguous(top_scores, threshold_diff) ==
  IF Len(top_scores) < 2 THEN FALSE
  ELSE LET best_score == top_scores[1]
           second_score == top_scores[2]
       IN  (best_score - second_score) < threshold_diff

(***************************************************************************)
(* External libraries.  The sentence-transformers model and rapidfuzz are  *)
(* not part of the repository; they are modelled as fixed deterministic    *)
(* functions over the small universe of texts the model uses.              *)
(***************************************************************************)
T_a == <<"a">>

T_b == <<"b">>

T_c == <<"c">>

T_d == <<"d">>

T_e == <<"e">>

T_A == <<"A">>

T_sp_a == <<" ", "a">>

Descriptions == {T_a, T_b, T_c, T_d, T_e}

\* SentenceTransformer.encode(..., normalize_embeddings=True) for one text:
\* a unit vector (norm ONE), the same for the same text.
model_encode(text) ==
  CASE text = T_a -> <<100, 0>>
    [] text = T_b -> <<80, 60>>
    [] text = T_c -> <<60, 80>>
    [] text = T_d -> <<0, 100>>
    [] text = T_e -> <<-60, 80>>
    [] text = T_A -> <<0, -100>>
    [] text = T_sp_a -> <<-100, 0>>
    [] OTHER -> <<-80, -60>>

\* The same call on an Embedder built with another model_name: other unit
\* vectors for the same texts.
model_encode_other(text) ==
  LET v == model_encode(text)
  IN  <<v[2], v[1]>>

DEFAULT_MODEL == "paraphrase-multilingual-MiniLM-L12-v2"

OTHER_MODEL == "other-model"

\* Embedder(model_name).encode_single(text, normalize=True) and each row of
\* Embedder(model_name).encode(texts, normalize=True).
embedder_encode(model_name, text) ==
  IF model_name = DEFAULT_MODEL THEN model_encode(text) ELSE model_encode_other(text)

TextRank(text) ==
  CASE text = T_a -> 1 [] text = T_b -> 2 [] text = T_c -> 3
    [] text = T_d -> 4 [] text = T_e -> 5 [] OTHER -> 9

\* rapidfuzz fuzz.token_set_ratio: 100 for equal texts, lower otherwise.
fuzz_token_set_ratio(text1, text2) ==
  LET a == TextRank(text1)
      b == TextRank(text2)
      dist == IF a >= b THEN a - b ELSE b - a
  IN  IF text1 = text2 THEN 100
      ELSE CASE dist = 1 -> 80 [] dist = 2 -> 50 [] dist = 3 -> 30 [] OTHER -> 0

\* fuzzy_similarity with the default method "token_set_ratio".
fuzzy_similarity(text1, text2) == fuzz_token_set_ratio(text1, text2)

\* Variant that scores a missing semantic score as 0.0 instead of the fuzzy proxy.
calculate_match_score_zero_semantic(et_description, wbs_description, et_code, wbs_code, et_unit, wbs_unit, semantic_score, weights) ==
  LET sem == IF semantic_score = None THEN 0 ELSE Val(semantic_score)
      fuzzy_score == fuzzy_similarity(et_description, wbs_description)
      code_match == code_similarity(et_code, wbs_code)
      unit_match == unit_similarity(et_unit, wbs_unit)
      w == IF weights = None THEN DefaultWeights ELSE Val(weights)
  IN  [score |-> combined_score(sem, fuzzy_score, code_match, unit_match, w),
       method |-> get_match_method(sem, fuzzy_score, code_match)]

calculate_match_score(et_description, wbs_description, et_code, wbs_code, et_unit, wbs_unit, semantic_score, weights) ==
  LET sem == IF semantic_score = None
             THEN normalize_fuzzy_score(fuzzy_similarity(et_description, wbs_description))
             ELSE Val(semantic_score)
      fuzzy_score == fuzzy_similarity(et_description, wbs_description)
      code_match == code_similarity(et_code, wbs_code)
      unit_match == unit_similarity(et_unit, wbs_unit)
      w == IF weights = None THEN DefaultWeights ELSE Val(weights)
  IN  [score |-> combined_score(sem, fuzzy_score, code_match, unit_match, w),
       method |-> get_match_method(sem, fuzzy_score, code_match)]

(***************************************************************************)
(* numpy: the shape of np.array(list of vectors), np.dot, argsort.         *)
(***************************************************************************)
EMBED_DIM == Len(model_encode(T_a))

\* np.array([]) has shape (0,); np.array of n vectors has shape (n, d).
np_shape(vectors) == IF vectors = <<>> THEN <<0>> ELSE <<Len(vectors), EMBED_DIM>>

dot(a, b) == (a[1] * b[1] + a[2] * b[2]) \div ONE

\* cosine_similarity / batch_cosine_similarity: np.dot(corpus, query).
\* A 1-D corpus array of another length than the query raises ValueError.
batch_cosine_similarity(query_embedding, corpus_embeddings) ==
  LET shape == np_shape(corpus_embeddings)
  IN  IF Len(shape) = 1 /\ shape[1] # Len(query_embedding)
      THEN [raised |-> TRUE, exc |-> "ValueError"]
      ELSE [raised |-> FALSE,
            scores |-> [i \in 1..Len(corpus_embeddings) |->
                          dot(corpus_embeddings[i], query_embedding)]]

\* Insert 0-based index i into idxs, kept ascending by scores, after its equals.
RECURSIVE InsertAsc(_, _, _)
InsertAsc(idxs, i, scores) ==
  IF idxs = <<>> THEN <<i>>
  ELSE IF scores[Head(idxs) + 1] <= scores[i + 1]
       THEN <<Head(idxs)>> \o InsertAsc(Tail(idxs), i, scores)
       ELSE <<i>> \o idxs

RECURSIVE argsort_upto(_, _)
argsort_upto(scores, n) ==
  IF n = 0 THEN <<>>
  ELSE InsertAsc(argsort_upto(scores, n - 1), n - 1, scores)

\* np.argsort(scores): 0-based indices, ascending, stable for short arrays.
np_argsort(scores) == argsort_upto(scores, Len(scores))

Reverse(s) == [i \in 1..Len(s) |-> s[Len(s) + 1 - i]]

\* Python slice s[:k] for k >= 0.
Take(s, k) == SubSeq(s, 1, Min(k, Len(s)))

\* Python s[i] with a 0-based, possibly negative, index that is in range.
PyIndex(s, i) == IF i >= 0 THEN s[i + 1] ELSE s[Len(s) + i + 1]

PyIndexInRange(s, i) == -Len(s) <= i /\ i < Len(s)

(***************************************************************************)
(* faiss.IndexFlatIP (external library): exhaustive inner-product search.  *)
(* search(q, k) returns the k best in descending score order (equal scores *)
(* by ascending id) and pads with id -1 and score -FLT_MAX when the index  *)
(* holds fewer than k vectors.                                             *)
(***************************************************************************)
FAISS_MISSING_SCORE == -(10000 * ONE)

RECURSIVE InsertDescById(_, _, _)
InsertDescById(idxs, i, scores) ==
  IF idxs = <<>> THEN <<i>>
  ELSE IF scores[Head(idxs) + 1] >= scores[i + 1]
       THEN <<Head(idxs)>> \o InsertDescById(Tail(idxs), i, scores)
       ELSE <<i>> \o idxs

RECURSIVE faiss_order_upto(_, _)
faiss_order_upto(scores, n) ==
  IF n = 0 THEN <<>>
  ELSE InsertDescById(faiss_order_upto(scores, n - 1), n - 1, scores)

faiss_search(index, query_vector, top_k) ==
  LET scores == [i \in 1..Len(index) |-> dot(index[i], query_vector)]
      order == Take(faiss_order_upto(scores, Len(index)), top_k)
      pad == top_k - Len(order)
  IN  [indices |-> order \o [i \in 1..pad |-> -1],
       scores |-> [i \in 1..Len(order) |-> scores[order[i] + 1]]
                  \o [i \in 1..pad |-> FAISS_MISSING_SCORE]]

(***************************************************************************)
(* src/models/schemas.py: the pydantic models the matcher builds.          *)
(***************************************************************************)
UNIDADES_MAP(v_lower) ==
  CASE v_lower = <<"m", "2">> -> Some(<<"m", "sup2">>)
    [] v_lower = <<"m", "3">> -> Some(<<"m", "sup3">>)
    [] v_lower = <<"m", "t">> -> Some(<<"m">>)
    [] v_lower = <<"m", "t", "s">> -> Some(<<"m">>)
    [] v_lower = <<"k", "g", ".">> -> Some(<<"k", "g">>)
    [] v_lower = <<"u", "n", "d">> -> Some(<<"u">>)
    [] v_lower = <<"u", "n", "i", "d">> -> Some(<<"u">>)
    [] v_lower = <<"u", "n", "i", "d", "a", "d">> -> Some(<<"u">>)
    [] OTHER -> None

\* Rubro.normalizar_unidad (field validator of Rubro.unidad).
Rubro_normalizar_unidad(v) ==
  LET v_lower == strip(lower(v))
  IN  IF UNIDADES_MAP(v_lower) # None THEN Val(UNIDADES_MAP(v_lower)) ELSE strip(v)

\* Rubro.validar_codigo (field validator of Rubro.codigo); the code is not empty.
Rubro_validar_codigo(v) == strip(v)

\* Rubro(rubro_id=..., codigo=..., descripcion=..., unidad=...).
Rubro(rubro_id, codigo, descripcion, unidad) ==
  [rubro_id |-> rubro_id,
   codigo |-> Rubro_validar_codigo(codigo),
   descripcion |-> descripcion,
   unidad |-> Rubro_normalizar_unidad(unidad)]

\* ReferenceRubro.normalize_wbs_code (field validator of wbs_code).
ReferenceRubro_normalize_wbs_code(v) == normalize_rubro_code(v)

\* ReferenceRubro as the corpus loader hands it over: no embedding yet.
ReferenceRubro(wbs_code, description, unit) ==
  [wbs_code |-> ReferenceRubro_normalize_wbs_code(wbs_code),
   description |-> description, unit |-> unit, embedding |-> None]

\* MatchEvidence field constraints (ge / le); FALSE means ValidationError.
MatchEvidence_valid(e) ==
  /\ 0 <= e.similarity_score /\ e.similarity_score <= ONE
  /\ 0 <= e.fuzzy_score /\ e.fuzzy_score <= 100
  /\ 0 <= e.combined_score /\ e.combined_score <= FULL

\* MatchResult field constraints; FALSE means ValidationError.
MatchResult_valid(r) ==
  /\ 0 <= r.confidence /\ r.confidence <= FULL
  /\ 0 <= r.processing_time_ms

(***************************************************************************)
(* src/parse/rubro_parser.py: unit normalisation of the section parser.    *)
(***************************************************************************)
\* The dict UNIDADES_NORMALIZADAS in insertion order.
UNIDADES_NORMALIZADAS ==
  << [unidad_norm |-> <<"m">>,
      variantes |-> {<<"m">>,
                    <<"m", "t">>,
                    <<"m", "t", "s">>,
                    <<"m", "e", "t", "r", "o">>,
                    <<"m", "e", "t", "r", "o", "s">>}],
     [unidad_norm |-> <<"k", "m">>,
      variantes |-> {<<"k", "m">>,
                    <<"k", "i", "l", "o", "m", "e", "t", "r", "o">>,
                    <<"k", "i", "l", "o", "m", "e", "t", "r", "o", "s">>}],
     [unidad_norm |-> <<"m", "sup2">>,
      variantes |-> {<<"m", "2">>,
                    <<"m", "sup2">>,
                    <<"m", "^", "2">>,
                    <<"m", "e", "t", "r", "o", " ", "c", "u", "a", "d", "r", "a", "d", "o">>,
                    <<"m", "e", "t", "r", "o", "s", " ", "c", "u", "a", "d", "r", "a", "d", "o", "s">>}],
     [unidad_norm |-> <<"h", "a">>,
      variantes |-> {<<"h", "a">>,
                    <<"h", "e", "c", "t", "a", "r", "e", "a">>,
                    <<"h", "e", "c", "t", "a", "r", "e", "a", "s">>}],
     [unidad_norm |-> <<"m", "sup3">>,
      variantes |-> {<<"m", "3">>,
                    <<"m", "sup3">>,
                    <<"m", "^", "3">>,
                    <<"m", "e", "t", "r", "o", " ", "c", "u", "b", "i", "c", "o">>,
                    <<"m", "e", "t", "r", "o", "s", " ", "c", "u", "b", "i", "c", "o", "s">>}],
     [unidad_norm |-> <<"l", "t">>,
      variantes |-> {<<"l", "t">>,
                    <<"l">>,
                    <<"l", "i", "t", "r", "o">>,
                    <<"l", "i", "t", "r", "o", "s">>}],
     [unidad_norm |-> <<"g", "l", "n">>,
      variantes |-> {<<"g", "l", "n">>,
                    <<"g", "l">>,
                    <<"g", "a", "l", "o", "n">>,
                    <<"g", "a", "l", "o", "n", "e", "s">>}],
     [unidad_norm |-> <<"k", "g">>,
      variantes |-> {<<"k", "g">>,
                    <<"k", "i", "l", "o">>,
                    <<"k", "i", "l", "o", "g", "r", "a", "m", "o">>,
                    <<"k", "i", "l", "o", "g", "r", "a", "m", "o", "s">>}],
     [unidad_norm |-> <<"t", "o", "n">>,
      variantes |-> {<<"t", "o", "n">>,
                    <<"t">>,
                    <<"t", "o", "n", "e", "l", "a", "d", "a">>,
                    <<"t", "o", "n", "e", "l", "a", "d", "a", "s">>}],
     [unidad_norm |-> <<"u">>,
      variantes |-> {<<"u">>,
                    <<"u", "n">>,
                    <<"u", "n", "d">>,
                    <<"u", "n", "i", "d">>,
                    <<"u", "n", "i", "d", "a", "d">>,
                    <<"u", "n", "i", "d", "a", "d", "e", "s">>,
                    <<"p", "z", "a">>,
                    <<"p", "i", "e", "z", "a">>,
                    <<"p", "i", "e", "z", "a", "s">>}] >>

\* The loop over UNIDADES_NORMALIZADAS.items() from entry i on.
RECURSIVE normalizar_unidad_from(_, _, _)
normalizar_unidad_from(unidad_raw, unidad_lower, i) ==
  IF i > Len(UNIDADES_NORMALIZADAS) THEN strip(unidad_raw)
  ELSE IF unidad_lower \in UNIDADES_NORMALIZADAS[i].variantes
       THEN UNIDADES_NORMALIZADAS[i].unidad_norm
       ELSE normalizar_unidad_from(unidad_raw, unidad_lower, i + 1)

normalizar_unidad(unidad_raw) ==
  normalizar_unidad_from(unidad_raw, strip(lower(unidad_raw)), 1)

(***************************************************************************)
(* src/dedupe/dedupe_engine.py.  Rubro objects are mutable and shared: the *)
(* engine works on positions in the caller's list (objs) and the returned  *)
(* list is read after every assignment has been made.                      *)
(***************************************************************************)
\* `rubro.codigo and rubro.codigo.strip()`
has_code(rubro) == rubro.codigo # <<>> /\ strip(rubro.codigo) # <<>>

canonical_code_of(rubro) ==
  IF has_code(rubro) THEN normalize_rubro_code(rubro.codigo)
  ELSE <<"__NO_CODE_", rubro.rubro_id>>

\* _group_by_code over rubros[1..n]: the groups in the order their codes
\* first appear (dict insertion order), each with its members' positions.
RECURSIVE group_by_code_upto(_, _)
group_by_code_upto(rubros, n) ==
  IF n = 0 THEN <<>>
  ELSE LET groups == group_by_code_upto(rubros, n - 1)
           canonical_code == canonical_code_of(rubros[n])
           hit == {g \in 1..Len(groups) : groups[g].canonical_code = canonical_code}
       IN  IF hit = {}
           THEN Append(groups, [canonical_code |-> canonical_code, members |-> <<n>>])
           ELSE [groups EXCEPT ![CHOOSE g \in hit : TRUE].members = Append(@, n)]

group_by_code(rubros) == group_by_code_upto(rubros, Len(rubros))

detect_conflicts(objs, members) ==
  LET descriptions == {lower(strip(objs[members[k]].descripcion)) : k \in 1..Len(members)}
      units == {lower(strip(objs[members[k]].unidad)) :
                  k \in {j \in 1..Len(members) : objs[members[j]].unidad # <<>>}}
  IN  (IF Cardinality(descriptions) > 1 THEN {"DESCRIPTION"} ELSE {})
      \cup (IF Cardinality(units) > 1 THEN {"UNIT"} ELSE {})

\* sorted(list(all_pages))
RECURSIVE sorted_list(_)
sorted_list(S) ==
  IF S = {} THEN <<>>
  ELSE LET least == CHOOSE x \in S : \A y \in S : x <= y
       IN  <<least>> \o sorted_list(S \ {least})

RECURSIVE sum_confidence(_, _, _)
sum_confidence(objs, members, k) ==
  IF k > Len(members) THEN 0
  ELSE objs[members[k]].confidence + sum_confidence(objs, members, k + 1)

\* _merge_exact_duplicates: the first rubro of the group is changed in place
\* and returned.
merge_exact_duplicates(objs, members) ==
  LET all_pages == UNION {{objs[members[k]].source_pages[p] :
                             p \in 1..Len(objs[members[k]].source_pages)} :
                            k \in 1..Len(members)}
      avg_confidence == sum_confidence(objs, members, 1) \div Len(members)
  IN  [objs |-> [objs EXCEPT ![members[1]].source_pages = sorted_list(all_pages),
                             ![members[1]].confidence = avg_confidence],
       merged |-> members[1],
       merge_count |-> Len(members)]

\* chr(65 + i)
chr_upper(i) == <<"A", "B", "C", "D", "E", "F", "G", "H">>[i + 1]

\* _split_conflicting_duplicates: rubro i of the group gets the code
\* canonical_code#A, #B, ... assigned in place.
split_conflicting_duplicates(canonical_code, objs, members) ==
  [p \in 1..Len(objs) |->
     IF \E k \in 1..Len(members) : members[k] = p
     THEN LET i == (CHOOSE k \in 1..Len(members) : members[k] = p) - 1
          IN  [objs[p] EXCEPT !.codigo = canonical_code \o <<"#", chr_upper(i)>>]
     ELSE objs[p]]

\* hashlib.md5(description.encode('utf-8')).hexdigest()[:8].upper()
md5_hex8(description) ==
  CASE description = T_a -> <<"0", "C", "C", "1", "7", "5", "B", "9">>
    [] description = T_b -> <<"9", "2", "E", "B", "5", "F", "F", "E">>
    [] description = T_c -> <<"4", "A", "8", "A", "0", "8", "F", "0">>
    [] description = T_d -> <<"8", "2", "7", "7", "E", "0", "9", "1">>
    [] description = T_e -> <<"E", "1", "6", "7", "1", "7", "9", "7">>
    [] OTHER -> <<"0", "0", "0", "0", "0", "0", "0", "0">>

generate_hash_code(description) == <<"H", "A", "S", "H", "_">> \o md5_hex8(description)

\* _create_passthrough_group and the two DuplicateGroup(...) constructions.
DuplicateGroup(canonical_code, strategy, conflicts, resolved, merge_count, split_count) ==
  [canonical_code |-> canonical_code, strategy |-> strategy, conflicts |-> conflicts,
   resolved |-> resolved, merge_count |-> merge_count, split_count |-> split_count]

\* _resolve_duplicate_group: the objects after the call, the positions of the
\* resolved rubros and the DuplicateGroup record.
resolve_duplicate_group(engine, canonical_code, objs, members) ==
  LET conflicts == detect_conflicts(objs, members)
      passthrough == [objs |-> objs, resolved |-> members,
                      group |-> DuplicateGroup(canonical_code, "MERGE", {}, members, 0, 0)]
  IN  IF conflicts = {}
      THEN IF engine.enable_merge
           THEN LET done == merge_exact_duplicates(objs, members)
                IN  [objs |-> done.objs, resolved |-> <<done.merged>>,
                     group |-> DuplicateGroup(canonical_code, "MERGE", {},
                                              <<done.merged>>, done.merge_count, 0)]
           ELSE passthrough
      ELSE IF engine.enable_split
           THEN [objs |-> split_conflicting_duplicates(canonical_code, objs, members),
                 resolved |-> members,
                 group |-> DuplicateGroup(canonical_code, "SPLIT", conflicts, members,
                                          0, Len(members))]
           ELSE passthrough

\* The loop over code_groups.items() from group g on; acc carries the
\* objects, resolved_rubros, duplicate_groups and the two counters.
RECURSIVE resolve_groups(_, _, _, _)
resolve_groups(engine, code_groups, g, acc) ==
  IF g > Len(code_groups) THEN acc
  ELSE IF Len(code_groups[g].members) = 1
       THEN resolve_groups(engine, code_groups, g + 1,
                           [acc EXCEPT !.resolved = @ \o code_groups[g].members])
       ELSE LET done == resolve_duplicate_group(engine, code_groups[g].canonical_code,
                                                acc.objs, code_groups[g].members)
            IN  resolve_groups(engine, code_groups, g + 1,
                  [objs |-> done.objs,
                   resolved |-> acc.resolved \o done.resolved,
                   duplicate_groups |-> Append(acc.duplicate_groups, done.group),
                   merged_count |-> acc.merged_count + done.group.merge_count,
                   split_count |-> acc.split_count + done.group.split_count])

\* Step 3 of deduplicate: every rubro of the input list that has no code now
\* gets a hash code assigned in place.
hash_no_code_rubros(objs) ==
  [p \in 1..Len(objs) |->
     IF has_code(objs[p]) THEN objs[p]
     ELSE [objs[p] EXCEPT !.codigo = generate_hash_code(objs[p].descripcion)]]

\* DedupeEngine.deduplicate(rubros): the returned list as the caller reads it
\* (the objects are shared with the input list), the groups and the stats.
deduplicate(engine, rubros) ==
  LET acc == resolve_groups(engine, group_by_code(rubros), 1,
                            [objs |-> rubros, resolved |-> <<>>,
                             duplicate_groups |-> <<>>, merged_count |-> 0,
                             split_count |-> 0])
      no_code == {p \in 1..Len(rubros) : ~has_code(acc.objs[p])}
      objs == IF engine.enable_hash THEN hash_no_code_rubros(acc.objs) ELSE acc.objs
  IN  [rubros |-> objs,
       resolved_rubros |-> [k \in 1..Len(acc.resolved) |-> objs[acc.resolved[k]]],
       duplicate_groups |-> acc.duplicate_groups,
       stats |-> [total_input |-> Len(rubros),
                  total_output |-> Len(acc.resolved),
                  merged_groups |-> acc.merged_count,
                  split_groups |-> acc.split_count,
                  hashed_rubros |-> IF engine.enable_hash THEN Cardinality(no_code) ELSE 0,
                  exact_duplicates_removed |-> Len(rubros) - Len(acc.resolved)]]

(***************************************************************************)
(* src/config/settings.py: the two thresholds the classifier reads, in     *)
(* ten-thousandths.                                                        *)
(***************************************************************************)
DEFAULT_MATCH_THRESHOLD == 7500

DEFAULT_MATCH_AMBIGUOUS_THRESHOLD == 6500

DefaultSettings ==
  [MATCH_THRESHOLD |-> DEFAULT_MATCH_THRESHOLD,
   MATCH_AMBIGUOUS_THRESHOLD |-> DEFAULT_MATCH_AMBIGUOUS_THRESHOLD]

\* Settings.validate_ambiguous_threshold together with the ge / le bounds.
Settings_valid(st) ==
  /\ 0 <= st.MATCH_THRESHOLD /\ st.MATCH_THRESHOLD <= FULL
  /\ 0 <= st.MATCH_AMBIGUOUS_THRESHOLD /\ st.MATCH_AMBIGUOUS_THRESHOLD <= FULL
  /\ st.MATCH_AMBIGUOUS_THRESHOLD < st.MATCH_THRESHOLD

\* Variant with validate_default off: a field left at its default skips its
\* constraints and its validator.
field_is_validated_if_set(provided) == provided

\* pydantic-settings BaseSettings sets validate_default=True and the model_config
\* of Settings does not change it: a default is validated like a given value.
field_is_validated(provided) == TRUE

\* The ge=0.0 / le=1.0 constraints of both threshold fields.
threshold_in_range(v) == 0 <= v /\ v <= FULL

\* Settings.validate_ambiguous_threshold(v, info): FALSE means ValueError.
\* data_match_threshold is info.data.get('MATCH_THRESHOLD'), None when that
\* field failed its own validation.
validate_ambiguous_threshold(v, data_match_threshold) ==
  LET match_threshold == IF data_match_threshold = None
                         THEN DEFAULT_MATCH_THRESHOLD
                         ELSE Val(data_match_threshold)
  IN  ~(v >= match_threshold)

\* Settings(): each field takes the environment's value or its default, the
\* fields are validated in declaration order, any failure raises.
Settings_load(env) ==
  LET mt_given == env.MATCH_THRESHOLD # None
      amb_given == env.MATCH_AMBIGUOUS_THRESHOLD # None
      mt == IF mt_given THEN Val(env.MATCH_THRESHOLD) ELSE DEFAULT_MATCH_THRESHOLD
      amb == IF amb_given THEN Val(env.MATCH_AMBIGUOUS_THRESHOLD)
             ELSE DEFAULT_MATCH_AMBIGUOUS_THRESHOLD
      mt_ok == field_is_validated(mt_given) => threshold_in_range(mt)
      data_mt == IF mt_ok THEN Some(mt) ELSE None
      amb_ok == field_is_validated(amb_given) =>
                  (threshold_in_range(amb) /\ validate_ambiguous_threshold(amb, data_mt))
  IN  IF mt_ok /\ amb_ok
      THEN [raised |-> FALSE, exc |-> "",
            settings |-> Some([MATCH_THRESHOLD |-> mt,
                               MATCH_AMBIGUOUS_THRESHOLD |-> amb])]
      ELSE [raised |-> TRUE, exc |-> "ValidationError", settings |-> None]

(***************************************************************************)
(* src/match/matcher.py: SemanticMatcher.  An operation that can raise     *)
(* returns a record whose field raised says so.                            *)
(***************************************************************************)
Raise(name) == [raised |-> TRUE, exc |-> name]

\* Embedder.encode(descriptions) followed by the zip loop that assigns
\* rubro.embedding; encode([]) returns np.array([]) and the loop does nothing.
generate_reference_embeddings(rubros, model_name) ==
  [i \in 1..Len(rubros) |->
     [rubros[i] EXCEPT !.embedding =
        Some(embedder_encode(model_name, rubros[i].description))]]

\* The records the module's logger emits, as <<level, event>>.
LOG_GENERATING == <<"INFO", "Generando embeddings">>

LOG_GENERATED == <<"INFO", "Embeddings generados">>

LOG_FAISS_FALLBACK == <<"WARNING", "FAISS no disponible, usando busqueda lineal">>

LOG_FAISS_BUILT == <<"INFO", "Indice FAISS construido">>

LOG_MATCHING == <<"INFO", "Matching rubros">>

LOG_PROGRESS == <<"INFO", "Progreso">>

LOG_COMPLETED == <<"INFO", "Matching completado">>

\* _build_faiss_index: without the library it logs the fallback and turns
\* use_faiss off; with it, shape[1] of the embeddings matrix raises IndexError
\* when the matrix is one-dimensional.
build_faiss_index(rubros, faiss_available) ==
  LET embeddings_matrix == [i \in 1..Len(rubros) |-> Val(rubros[i].embedding)]
      shape == np_shape(embeddings_matrix)
  IN  IF ~faiss_available
      THEN [raised |-> FALSE, exc |-> "", use_faiss |-> FALSE,
            faiss_index |-> None, log |-> <<LOG_FAISS_FALLBACK>>]
      ELSE IF Len(shape) < 2
           THEN [raised |-> TRUE, exc |-> "IndexError", use_faiss |-> TRUE,
                 faiss_index |-> None, log |-> <<>>]
           ELSE [raised |-> FALSE, exc |-> "", use_faiss |-> TRUE,
                 faiss_index |-> Some(embeddings_matrix),
                 log |-> <<LOG_FAISS_BUILT>>]

\* SemanticMatcher.__init__ on the caller's list: the list afterwards (the
\* matcher keeps the caller's list object and assigns each item's embedding in
\* place), the new matcher's fields, the log records and the outcome.
matcher_init(rubros, model_name, use_faiss_arg, faiss_available, provider_ok) ==
  LET wanted == use_faiss_arg /\ faiss_available
  IN  IF ~provider_ok
      THEN [raised |-> TRUE, exc |-> "ProviderError", reference_rubros |-> rubros,
            use_faiss |-> wanted, faiss_index |-> None, log |-> <<LOG_GENERATING>>]
      ELSE LET embedded == generate_reference_embeddings(rubros, model_name)
               log == <<LOG_GENERATING, LOG_GENERATED>>
           IN  IF ~wanted
               THEN [raised |-> FALSE, exc |-> "", reference_rubros |-> embedded,
                     use_faiss |-> FALSE, faiss_index |-> None, log |-> log]
               ELSE LET built == build_faiss_index(embedded, faiss_available)
                    IN  [raised |-> built.raised, exc |-> built.exc,
                         reference_rubros |-> embedded,
                         use_faiss |-> built.use_faiss,
                         faiss_index |-> built.faiss_index,
                         log |-> log \o built.log]

search_semantic(m, query_embedding, top_k) ==
  IF m.use_faiss
  THEN LET found == faiss_search(Val(m.faiss_index), query_embedding, top_k)
       IN  [raised |-> FALSE, exc |-> "", backend |-> "faiss",
            indices |-> found.indices, scores |-> found.scores]
  ELSE LET embeddings_matrix ==
             [i \in 1..Len(m.reference_rubros) |-> Val(m.reference_rubros[i].embedding)]
           sims == batch_cosine_similarity(query_embedding, embeddings_matrix)
       IN  IF sims.raised THEN Raise(sims.exc) @@ [backend |-> "linear"]
           ELSE LET top_indices == Take(Reverse(np_argsort(sims.scores)), top_k)
                IN  [raised |-> FALSE, exc |-> "", backend |-> "linear",
                     indices |-> top_indices,
                     scores |-> [i \in 1..Len(top_indices) |->
                                   sims.scores[top_indices[i] + 1]]]

\* Stable insertion for evidences.sort(key=combined_score, reverse=True).
RECURSIVE InsertEvidence(_, _)
InsertEvidence(sorted, e) ==
  IF sorted = <<>> THEN <<e>>
  ELSE IF Head(sorted).combined_score >= e.combined_score
       THEN <<Head(sorted)>> \o InsertEvidence(Tail(sorted), e)
       ELSE <<e>> \o sorted

RECURSIVE sort_evidences_upto(_, _)
sort_evidences_upto(evidences, n) ==
  IF n = 0 THEN <<>>
  ELSE InsertEvidence(sort_evidences_upto(evidences, n - 1), evidences[n])

\* Variant that sorts ascending and reverses: equal scores swap places.
sort_evidences_reversing_ties(evidences) ==
  sort_evidences_upto(Reverse(evidences), Len(evidences))

sort_evidences(evidences) == sort_evidences_upto(evidences, Len(evidences))

\* The MatchEvidence built in one iteration of the _refine_candidates loop.
make_evidence(m, rubro, idx, semantic_score) ==
  LET candidate == PyIndex(m.reference_rubros, idx)
      cm == calculate_match_score(rubro.descripcion, candidate.description,
                                  Some(rubro.codigo), Some(candidate.wbs_code),
                                  Some(rubro.unidad), candidate.unit,
                                  Some(semantic_score), None)
  IN  [wbs_code |-> candidate.wbs_code,
       wbs_description |-> candidate.description,
       similarity_score |-> semantic_score,
       fuzzy_score |-> fuzzy_similarity(rubro.descripcion, candidate.description),
       combined_score |-> cm.score,
       match_method |-> cm.method,
       snippet_et |-> Take(rubro.descripcion, 200),
       snippet_wbs |-> Take(candidate.description, 200)]

refine_candidates(m, rubro, candidates_indices, semantic_scores) ==
  LET n == Min(Len(candidates_indices), Len(semantic_scores))
  IN  IF \E i \in 1..n : ~PyIndexInRange(m.reference_rubros, candidates_indices[i])
      THEN Raise("IndexError")
      ELSE LET evidences == [i \in 1..n |->
                 make_evidence(m, rubro, candidates_indices[i], semantic_scores[i])]
           IN  IF \E i \in 1..n : ~MatchEvidence_valid(evidences[i])
               THEN Raise("ValidationError")
               ELSE [raised |-> FALSE, exc |-> "",
                     evidences |-> sort_evidences(evidences)]

\* Variant with an exclusive comparison against MATCH_THRESHOLD.
classify_status_exclusive(evidences, st) ==
  LET best_score == evidences[1].combined_score
  IN  IF best_score > st.MATCH_THRESHOLD
      THEN IF Len(evidences) > 1
           THEN IF (best_score - evidences[2].combined_score) < st.MATCH_AMBIGUOUS_THRESHOLD
                THEN "AMBIGUOUS"
                ELSE "MATCHED"
           ELSE "MATCHED"
      ELSE IF best_score >= st.MATCH_AMBIGUOUS_THRESHOLD
           THEN "MANUAL_REVIEW"
           ELSE "NO_MATCH"

\* Variant without the ambiguity test: every best at or above the threshold is MATCHED.
classify_status_no_ambiguity(evidences, st) ==
  LET best_score == evidences[1].combined_score
  IN  IF best_score >= st.MATCH_THRESHOLD THEN "MATCHED"
      ELSE IF best_score >= st.MATCH_AMBIGUOUS_THRESHOLD
           THEN "MANUAL_REVIEW"
           ELSE "NO_MATCH"

classify_status(evidences, st) ==
  LET best_score == evidences[1].combined_score
  IN  IF best_score >= st.MATCH_THRESHOLD
      THEN IF Len(evidences) > 1
           THEN IF (best_score - evidences[2].combined_score) < st.MATCH_AMBIGUOUS_THRESHOLD
                THEN "AMBIGUOUS"
                ELSE "MATCHED"
           ELSE "MATCHED"
      ELSE IF best_score >= st.MATCH_AMBIGUOUS_THRESHOLD
           THEN "MANUAL_REVIEW"
           ELSE "NO_MATCH"

\* Variant without the bound of three: every evidence after the best.
select_alternatives_unbounded(evidences) ==
  IF Len(evidences) > 1 THEN Tail(evidences) ELSE <<>>

select_alternatives(evidences) ==
  IF Len(evidences) > 1 THEN SubSeq(evidences, 2, Min(4, Len(evidences))) ELSE <<>>

select_best_match(status, best_evidence) ==
  IF status # "NO_MATCH" THEN Some(best_evidence) ELSE None

\* Variant that lets the measured time leak into the confidence.
classify_match_timed_confidence(rubro, evidences, st, processing_time_ms) ==
  IF evidences = <<>>
  THEN [et_rubro_id |-> rubro.rubro_id,
        et_code |-> Some(rubro.codigo),
        et_description |-> rubro.descripcion,
        status |-> "NO_MATCH",
        best_match |-> None,
        alternative_matches |-> <<>>,
        confidence |-> 0,
        processing_time_ms |-> processing_time_ms]
  ELSE LET best_evidence == evidences[1]
           status == classify_status(evidences, st)
       IN  [et_rubro_id |-> rubro.rubro_id,
            et_code |-> Some(rubro.codigo),
            et_description |-> rubro.descripcion,
            status |-> status,
            best_match |-> select_best_match(status, best_evidence),
            alternative_matches |-> select_alternatives(evidences),
            confidence |-> Max(0, best_evidence.combined_score - processing_time_ms),
            processing_time_ms |-> processing_time_ms]

\* _classify_match; processing_time_ms is what the wall clock measured.
classify_match(rubro, evidences, st, processing_time_ms) ==
  IF evidences = <<>>
  THEN [et_rubro_id |-> rubro.rubro_id,
        et_code |-> Some(rubro.codigo),
        et_description |-> rubro.descripcion,
        status |-> "NO_MATCH",
        best_match |-> None,
        alternative_matches |-> <<>>,
        confidence |-> 0,
        processing_time_ms |-> processing_time_ms]
  ELSE LET best_evidence == evidences[1]
           status == classify_status(evidences, st)
       IN  [et_rubro_id |-> rubro.rubro_id,
            et_code |-> Some(rubro.codigo),
            et_description |-> rubro.descripcion,
            status |-> status,
            best_match |-> select_best_match(status, best_evidence),
            alternative_matches |-> select_alternatives(evidences),
            confidence |-> best_evidence.combined_score,
            processing_time_ms |-> processing_time_ms]

\* What match_single leaves behind when it raises: the search it had finished.
Raised(name, searches) ==
  [raised |-> TRUE, exc |-> name, searches |-> searches, evidences |-> <<>>,
   result |-> None]

\* match_single on matcher m; provider_ok says whether the provider answers,
\* elapsed is the time.time() difference in milliseconds.
match_single(m, rubro, top_k, provider_ok, elapsed) ==
  IF ~provider_ok THEN Raised("ProviderError", <<>>)
  ELSE Bind(search_semantic(m, embedder_encode(m.model_name, rubro.descripcion), top_k),
         LAMBDA found :
           IF found.raised THEN Raised(found.exc, <<>>)
           ELSE Bind(refine_candidates(m, rubro, found.indices, found.scores),
                  LAMBDA refined :
                    LET search == [backend |-> found.backend,
                                   indices |-> found.indices,
                                   scores |-> found.scores]
                        result == classify_match(rubro, refined.evidences,
                                                 m.settings, elapsed)
                    IN  IF refined.raised THEN Raised(refined.exc, <<search>>)
                        ELSE IF ~MatchResult_valid(result)
                             THEN Raised("ValidationError", <<search>>)
                             ELSE [raised |-> FALSE, exc |-> "",
                                   searches |-> <<search>>,
                                   evidences |-> refined.evidences,
                                   result |-> Some(result)]))

\* The progress record match_batch logs before every tenth query.
progress_log(i) == IF i % 10 = 0 THEN <<LOG_PROGRESS>> ELSE <<>>

\* The loop of match_batch over rubros[from..]: the first exception ends it.
RECURSIVE match_batch_from(_, _, _, _, _, _)
match_batch_from(m, rubros, top_k, oks, elapsed, from) ==
  IF from > Len(rubros)
  THEN [raised |-> FALSE, exc |-> "", outs |-> <<>>, reached |-> Len(rubros),
        searches |-> <<>>, log |-> <<LOG_COMPLETED>>]
  ELSE Bind(match_single(m, rubros[from], top_k, oks[from], elapsed),
         LAMBDA one :
           IF one.raised
           THEN [raised |-> TRUE, exc |-> one.exc, outs |-> <<>>, reached |-> from,
                 searches |-> one.searches, log |-> progress_log(from)]
           ELSE Bind(match_batch_from(m, rubros, top_k, oks, elapsed, from + 1),
                  LAMBDA rest :
                    [raised |-> rest.raised, exc |-> rest.exc,
                     outs |-> IF rest.raised THEN <<>>
                              ELSE <<[evidences |-> one.evidences,
                                      result |-> one.result,
                                      search |-> one.searches[1]]>> \o rest.outs,
                     reached |-> rest.reached,
                     searches |-> one.searches \o rest.searches,
                     log |-> progress_log(from) \o rest.log]))

match_batch(m, rubros, top_k, oks, elapsed) ==
  LET looped == match_batch_from(m, rubros, top_k, oks, elapsed, 1)
  IN  [looped EXCEPT !.log = <<LOG_MATCHING>> \o @]

(***************************************************************************)
(* Inputs and bounds.                                                      *)
(***************************************************************************)
MaxCorpus == 5

MaxBatch == 2

MaxOps == 2

top_k_default == 5

TopKs == {1, 3, top_k_default}

C_0101 == <<"0", "1", ".", "0", "1">>

C_0102 == <<"0", "1", ".", "0", "2">>

C_0103 == <<"0", "1", ".", "0", "3">>

C_0201 == <<"0", "2", ".", "0", "1">>

C_0202 == <<"0", "2", ".", "0", "2">>

C_0301 == <<"0", "3", ".", "0", "1">>

C_0909 == <<"0", "9", ".", "0", "9">>

U_m3 == <<"m", "3">>

U_kg == <<"k", "g">>

U_u == <<"u">>

\* The reference catalogue rows a corpus is drawn from, in catalogue order.
Pool ==
  << ReferenceRubro(C_0101, T_a, Some(U_m3)),
     ReferenceRubro(C_0102, T_b, Some(U_m3)),
     ReferenceRubro(C_0103, T_b, None),
     ReferenceRubro(C_0201, T_c, Some(U_kg)),
     ReferenceRubro(C_0202, T_d, None),
     ReferenceRubro(C_0301, T_e, Some(U_u)) >>

RECURSIVE PickFrom(_, _)
PickFrom(S, i) ==
  IF i > Len(Pool) THEN <<>>
  ELSE (IF i \in S THEN <<Pool[i]>> ELSE <<>>) \o PickFrom(S, i + 1)

Corpora == {PickFrom(S, 1) : S \in {X \in SUBSET (1..Len(Pool)) : Cardinality(X) <= MaxCorpus}}

SessionCorpora == {PickFrom({1, 2, 5}, 1), PickFrom({4, 5, 6}, 1)}

Queries ==
  { Rubro("r1", C_0101, T_a, U_m3),
    Rubro("r2", C_0909, T_b, U_kg),
    Rubro("r3", <<" ">> \o C_0202, T_d, <<"u", "n", "d">>),
    Rubro("r4", C_0909, T_c, <<"K", "G">>) }

RECURSIVE SeqsUpTo(_, _)
SeqsUpTo(S, n) ==
  IF n = 0 THEN {<<>>}
  ELSE LET shorter == SeqsUpTo(S, n - 1)
       IN  shorter \cup {Append(q, x) : q \in {r \in shorter : Len(r) = n - 1}, x \in S}

Batches == SeqsUpTo(Queries, MaxBatch)

SettingsChoices ==
  { DefaultSettings,
    [MATCH_THRESHOLD |-> 7200, MATCH_AMBIGUOUS_THRESHOLD |-> 500] }

CacheTexts == {T_a, T_A, T_sp_a}

AllTexts == Descriptions \cup CacheTexts

(***************************************************************************)
(* State.                                                                  *)
(***************************************************************************)
VARIABLES
  FAISS_AVAILABLE,   \* matcher.py module flag: the faiss import succeeded
  settings,          \* the Settings singleton (_settings), None until loaded
  reference_rubros,  \* the caller's list, shared with the matcher
  phase,             \* "off" | "new" | "built" | "failed" (the constructor raised)
  use_faiss,         \* SemanticMatcher.use_faiss
  faiss_index,       \* SemanticMatcher.faiss_index, None until built
  last,              \* the last matcher call: arguments, outcome, log records
  ops_left,          \* calls the caller still makes in this run
  encode_calls,      \* text -> number of Embedder.encode_single calls
  cache,             \* EmbeddingCache._cache: text -> None | Some(vector)
  cache_last,        \* the last sequential cache call and its return value
  threads,           \* thread -> position and locals inside get_or_compute
  scoring,           \* a ScoringWeights construction and a combined_score call
  config,            \* the environment Settings() reads and how loading ended
  helper             \* a call of a function outside the matcher class: name, arguments, return

vars == <<FAISS_AVAILABLE, settings, reference_rubros, phase, use_faiss,
          faiss_index, last, ops_left, encode_calls, cache, cache_last,
          threads, scoring, config, helper>>

NoEncodeCalls == [t \in AllTexts |-> 0]

NoCall == [op |-> "none", rubros |-> <<>>, top_k |-> 0, use_faiss_arg |-> FALSE,
           raised |-> FALSE, exc |-> "", outs |-> <<>>, searches |-> <<>>,
           log |-> <<>>]

EmptyCache == [t \in CacheTexts |-> None]

NoCacheCall == [op |-> "none", text |-> <<>>, ret |-> None]

NumThreads == 2

Threads == 1..NumThreads

IdleThread == [pc |-> "idle", text |-> <<>>, cached |-> None,
               embedding |-> None, ret |-> None]

NoScoring == [weights |-> DefaultWeights, state |-> "off", args |-> <<>>,
              score |-> None]

NoEnv == [MATCH_THRESHOLD |-> None, MATCH_AMBIGUOUS_THRESHOLD |-> None]

NoConfig == [state |-> "off", env |-> NoEnv, reloads |-> 0]

NoHelper == [fn |-> "none", args |-> <<>>, ret |-> None]

\* The matcher as the methods see it through self; its embedder is the global
\* one, get_embedder(), built with the default model.
Self ==
  [reference_rubros |-> reference_rubros, use_faiss |-> use_faiss,
   faiss_index |-> faiss_index, settings |-> settings,
   model_name |-> DEFAULT_MODEL]

(***************************************************************************)
(* The matcher: construction and queries.                                  *)
(***************************************************************************)
MatcherOff ==
  /\ use_faiss = FALSE
  /\ faiss_index = None
  /\ last = NoCall
  /\ encode_calls = NoEncodeCalls

CacheOff ==
  /\ cache = EmptyCache
  /\ cache_last = NoCacheCall
  /\ threads = [t \in Threads |-> IdleThread]

\* One matcher over any corpus, asked once.
Init ==
  /\ FAISS_AVAILABLE \in BOOLEAN
  /\ settings \in SettingsChoices
  /\ reference_rubros \in Corpora
  /\ phase = "new"
  /\ ops_left = 1
  /\ MatcherOff
  /\ CacheOff
  /\ scoring = NoScoring
  /\ config = NoConfig
  /\ helper = NoHelper

\* One matcher over a catalogue, asked up to MaxOps times.
InitSession ==
  /\ FAISS_AVAILABLE \in BOOLEAN
  /\ settings = DefaultSettings
  /\ reference_rubros \in SessionCorpora
  /\ phase = "new"
  /\ ops_left = MaxOps
  /\ MatcherOff
  /\ CacheOff
  /\ scoring = NoScoring
  /\ config = NoConfig
  /\ helper = NoHelper

\* SemanticMatcher.__init__(reference_rubros, embedder, use_faiss_arg) with
\* the global embedder.
Construct(use_faiss_arg, provider_ok) ==
  /\ phase = "new"
  /\ provider_ok \/ reference_rubros # <<>>
  /\ \E made \in {matcher_init(reference_rubros, DEFAULT_MODEL, use_faiss_arg,
                               FAISS_AVAILABLE, provider_ok)} :
       /\ reference_rubros' = made.reference_rubros
       /\ use_faiss' = made.use_faiss
       /\ faiss_index' = made.faiss_index
       /\ phase' = IF made.raised THEN "failed" ELSE "built"
       /\ last' = [NoCall EXCEPT !.op = "construct",
                                 !.use_faiss_arg = use_faiss_arg,
                                 !.raised = made.raised, !.exc = made.exc,
                                 !.log = made.log]
  /\ UNCHANGED <<FAISS_AVAILABLE, settings, ops_left, encode_calls, cache,
                 cache_last, threads, scoring, config, helper>>

\* Variant in which a query leaves the reference list reversed in place.
index_after_query_reversing(m) ==
  [reference_rubros |-> Reverse(m.reference_rubros), use_faiss |-> m.use_faiss,
   faiss_index |-> m.faiss_index]

\* The matcher's index fields after match_single: the method and the two it
\* calls assign no attribute of self and mutate neither the list nor the index.
index_after_query(m) ==
  [reference_rubros |-> m.reference_rubros, use_faiss |-> m.use_faiss,
   faiss_index |-> m.faiss_index]

\* SemanticMatcher.match_single(rubro, top_k).
MatchSingle(rubro, top_k, provider_ok, elapsed) ==
  /\ phase = "built"
  /\ ops_left > 0
  /\ ops_left' = ops_left - 1
  /\ \E one \in {match_single(Self, rubro, top_k, provider_ok, elapsed)} :
         last' = [NoCall EXCEPT !.op = "match_single", !.rubros = <<rubro>>,
                    !.top_k = top_k, !.raised = one.raised, !.exc = one.exc,
                    !.outs = IF one.raised THEN <<>>
                             ELSE <<[evidences |-> one.evidences,
                                     result |-> one.result,
                                     search |-> one.searches[1]]>>,
                    !.searches = one.searches]
  /\ encode_calls' = [encode_calls EXCEPT ![rubro.descripcion] = @ + 1]
  /\ \E after \in {index_after_query(Self)} :
       /\ reference_rubros' = after.reference_rubros
       /\ use_faiss' = after.use_faiss
       /\ faiss_index' = after.faiss_index
  /\ UNCHANGED <<FAISS_AVAILABLE, settings, phase, cache, cache_last, threads,
                 scoring, config, helper>>

\* Number of encode_single calls for text among rubros[1..reached].
CallsIn(rubros, reached, text) ==
  Cardinality({i \in 1..reached : rubros[i].descripcion = text})

\* SemanticMatcher.match_batch(rubros, top_k); the provider fails on the
\* query at position fail_at (0: on none).
MatchBatch(rubros, top_k, fail_at, elapsed) ==
  /\ phase = "built"
  /\ ops_left > 0
  /\ ops_left' = ops_left - 1
  /\ \E all \in {match_batch(Self, rubros, top_k,
                                [i \in 1..Len(rubros) |-> i # fail_at], elapsed)} :
         /\ last' = [NoCall EXCEPT !.op = "match_batch", !.rubros = rubros,
                       !.top_k = top_k, !.raised = all.raised, !.exc = all.exc,
                       !.outs = all.outs, !.searches = all.searches,
                       !.log = all.log]
         /\ encode_calls' = [t \in AllTexts |->
                               encode_calls[t] + CallsIn(rubros, all.reached, t)]
  /\ \E after \in {IF rubros = <<>> THEN Self ELSE index_after_query(Self)} :
       /\ reference_rubros' = after.reference_rubros
       /\ use_faiss' = after.use_faiss
       /\ faiss_index' = after.faiss_index
  /\ UNCHANGED <<FAISS_AVAILABLE, settings, phase, cache, cache_last, threads,
                 scoring, config, helper>>

\* What the wall clock can measure for one query, in milliseconds.
ElapsedMs == {12, 15}

ElapsedOnce == {12}

Next ==
  \/ \E use_faiss_arg \in BOOLEAN, provider_ok \in BOOLEAN :
       Construct(use_faiss_arg, provider_ok)
  \/ \E rubro \in Queries, top_k \in TopKs, provider_ok \in BOOLEAN :
       \E elapsed \in ElapsedOnce :
         MatchSingle(rubro, top_k, provider_ok, elapsed)
  \/ \E rubros \in Batches :
       \E fail_at \in 0..Len(rubros), elapsed \in ElapsedOnce :
         MatchBatch(rubros, top_k_default, fail_at, elapsed)

Spec == Init /\ [][Next]_vars

NextSession ==
  \/ \E use_faiss_arg \in BOOLEAN : Construct(use_faiss_arg, TRUE)
  \/ \E rubro \in Queries, provider_ok \in BOOLEAN, elapsed \in ElapsedMs :
       MatchSingle(rubro, top_k_default, provider_ok, elapsed)
  \/ \E rubros \in Batches :
       \E fail_at \in 0..Len(rubros), elapsed \in ElapsedMs :
         MatchBatch(rubros, top_k_default, fail_at, elapsed)

SpecSession == InitSession /\ [][NextSession]_vars

\* One matcher asked again and again, the provider always answering:
\* single queries, and batches that repeat one query.
MaxRepeats == 2

\* The top_k values asked for: one the three-item catalogues can fill.
RepeatTopKs == {3}

RepeatBatches == {[i \in 1..n |-> rubro] : rubro \in Queries, n \in 1..MaxBatch}

InitRepeat ==
  /\ FAISS_AVAILABLE \in BOOLEAN
  /\ settings = DefaultSettings
  /\ reference_rubros \in SessionCorpora
  /\ phase = "new"
  /\ ops_left = MaxRepeats
  /\ MatcherOff
  /\ CacheOff
  /\ scoring = NoScoring
  /\ config = NoConfig
  /\ helper = NoHelper

NextRepeat ==
  \/ \E use_faiss_arg \in BOOLEAN : Construct(use_faiss_arg, TRUE)
  \/ \E rubro \in Queries, top_k \in RepeatTopKs, elapsed \in ElapsedMs :
       MatchSingle(rubro, top_k, TRUE, elapsed)
  \/ \E rubros \in RepeatBatches, top_k \in RepeatTopKs, elapsed \in ElapsedMs :
       MatchBatch(rubros, top_k, 0, elapsed)

SpecRepeat == InitRepeat /\ [][NextRepeat]_vars

(***************************************************************************)
(* src/match/embedder.py: EmbeddingCache, called from one thread.          *)
(***************************************************************************)
MaxCacheOps == 3

SetVectors == {<<0, 100>>, <<60, 80>>}

\* EmbeddingCache.get: dict.get, None for a missing key.
cache_get(c, text) == c[text]

\* Variant that canonicalizes the key: self._cache[text.strip().lower()] = embedding.
cache_set_normalized(c, text, embedding) ==
  [c EXCEPT ![lower(strip(text))] = Some(embedding)]

\* EmbeddingCache.set: the dict after self._cache[text] = embedding.
cache_set(c, text, embedding) == [c EXCEPT ![text] = Some(embedding)]

\* Embedder.encode_single(text, normalize=True).
encode_single(text) == model_encode(text)

\* EmbeddingCache.get_or_compute run to completion: the dict afterwards, the
\* value returned and the number of encode_single calls made.
cache_get_or_compute(c, text) ==
  LET cached == cache_get(c, text)
  IN  IF cached # None
      THEN [cache |-> c, ret |-> cached, encodes |-> 0]
      ELSE LET embedding == encode_single(text)
           IN  [cache |-> cache_set(c, text, embedding),
                ret |-> Some(embedding), encodes |-> 1]

InitCache ==
  /\ FAISS_AVAILABLE = FALSE
  /\ settings = DefaultSettings
  /\ reference_rubros = <<>>
  /\ phase = "off"
  /\ ops_left = MaxCacheOps
  /\ MatcherOff
  /\ CacheOff
  /\ scoring = NoScoring
  /\ config = NoConfig
  /\ helper = NoHelper

CacheFrame ==
  UNCHANGED <<FAISS_AVAILABLE, settings, reference_rubros, phase, use_faiss,
              faiss_index, last, threads, scoring, config, helper>>

CacheGet(text) ==
  /\ ops_left > 0
  /\ ops_left' = ops_left - 1
  /\ cache_last' = [op |-> "get", text |-> text, ret |-> cache_get(cache, text)]
  /\ UNCHANGED <<cache, encode_calls>>
  /\ CacheFrame

CacheSet(text, embedding) ==
  /\ ops_left > 0
  /\ ops_left' = ops_left - 1
  /\ cache' = cache_set(cache, text, embedding)
  /\ cache_last' = [op |-> "set", text |-> text, ret |-> None]
  /\ UNCHANGED encode_calls
  /\ CacheFrame

CacheGetOrCompute(text) ==
  /\ ops_left > 0
  /\ ops_left' = ops_left - 1
  /\ \E done \in {cache_get_or_compute(cache, text)} :
       /\ cache' = done.cache
       /\ cache_last' = [op |-> "get_or_compute", text |-> text, ret |-> done.ret]
       /\ encode_calls' = [encode_calls EXCEPT ![text] = @ + done.encodes]
  /\ CacheFrame

CacheClear ==
  /\ ops_left > 0
  /\ ops_left' = ops_left - 1
  /\ cache' = EmptyCache
  /\ cache_last' = [op |-> "clear", text |-> <<>>, ret |-> None]
  /\ UNCHANGED encode_calls
  /\ CacheFrame

NextCache ==
  \/ \E text \in CacheTexts : CacheGet(text)
  \/ \E text \in CacheTexts, embedding \in SetVectors : CacheSet(text, embedding)
  \/ \E text \in CacheTexts : CacheGetOrCompute(text)
  \/ CacheClear

SpecCache == InitCache /\ [][NextCache]_vars

(***************************************************************************)
(* EmbeddingCache.get_or_compute called from several threads: each line of *)
(* the method is one step, and the threads take their steps in any order.  *)
(***************************************************************************)
InitThreads ==
  /\ FAISS_AVAILABLE = FALSE
  /\ settings = DefaultSettings
  /\ reference_rubros = <<>>
  /\ phase = "off"
  /\ ops_left = 0
  /\ MatcherOff
  /\ CacheOff
  /\ scoring = NoScoring
  /\ config = NoConfig
  /\ helper = NoHelper

ThreadFrame ==
  UNCHANGED <<FAISS_AVAILABLE, settings, reference_rubros, phase, use_faiss,
              faiss_index, last, ops_left, cache_last, scoring, config, helper>>

\* A thread enters get_or_compute(text, embedder).
ThreadCall(t, text) ==
  /\ threads[t].pc = "idle"
  /\ threads' = [threads EXCEPT ![t] = [@ EXCEPT !.pc = "get", !.text = text]]
  /\ UNCHANGED <<cache, encode_calls>>
  /\ ThreadFrame

\* cached = self.get(text); if cached is not None: return cached
ThreadGet(t) ==
  /\ threads[t].pc = "get"
  /\ \E cached \in {cache_get(cache, threads[t].text)} :
       threads' = [threads EXCEPT ![t] =
                     IF cached # None
                     THEN [@ EXCEPT !.cached = cached, !.ret = cached, !.pc = "done"]
                     ELSE [@ EXCEPT !.cached = cached, !.pc = "encode"]]
  /\ UNCHANGED <<cache, encode_calls>>
  /\ ThreadFrame

\* embedding = embedder.encode_single(text, normalize=normalize)
ThreadEncode(t) ==
  /\ threads[t].pc = "encode"
  /\ threads' = [threads EXCEPT ![t] =
                   [@ EXCEPT !.embedding = Some(encode_single(threads[t].text)),
                               !.pc = "set"]]
  /\ encode_calls' = [encode_calls EXCEPT ![threads[t].text] = @ + 1]
  /\ UNCHANGED cache
  /\ ThreadFrame

\* self.set(text, embedding); return embedding
ThreadSet(t) ==
  /\ threads[t].pc = "set"
  /\ cache' = cache_set(cache, threads[t].text, Val(threads[t].embedding))
  /\ threads' = [threads EXCEPT ![t] = [@ EXCEPT !.ret = threads[t].embedding, !.pc = "done"]]
  /\ UNCHANGED encode_calls
  /\ ThreadFrame

NextThreads ==
  \/ \E t \in Threads, text \in CacheTexts : ThreadCall(t, text)
  \/ \E t \in Threads : ThreadGet(t)
  \/ \E t \in Threads : ThreadEncode(t)
  \/ \E t \in Threads : ThreadSet(t)

SpecThreads == InitThreads /\ [][NextThreads]_vars

(***************************************************************************)
(* src/match/scoring.py: a ScoringWeights object is constructed and        *)
(* combined_score is called with it.                                       *)
(***************************************************************************)
WeightGrid == {-50, 0, 5, 20, 70, 71, 150}

WeightChoices == [semantic : WeightGrid, fuzzy : WeightGrid,
                  code_match : WeightGrid, unit_match : WeightGrid]

SemanticInputs == {0, 50, ONE}

FuzzyInputs == {0, 50, 100}

CodeMatchInputs == {0, ONE}

UnitMatchInputs == {0, ONE \div 2, ONE}

InitScoring ==
  /\ FAISS_AVAILABLE = FALSE
  /\ settings = DefaultSettings
  /\ reference_rubros = <<>>
  /\ phase = "off"
  /\ ops_left = 0
  /\ MatcherOff
  /\ CacheOff
  /\ scoring \in {[NoScoring EXCEPT !.state = "new", !.weights = w] : w \in WeightChoices}
  /\ config = NoConfig
  /\ helper = NoHelper

ScoringFrame ==
  UNCHANGED <<FAISS_AVAILABLE, settings, reference_rubros, phase, use_faiss,
              faiss_index, last, ops_left, encode_calls, cache, cache_last, threads,
              config, helper>>

\* ScoringWeights(semantic, fuzzy, code_match, unit_match): __post_init__
\* raises ValueError ("rejected") or the object exists ("constructed").
ConstructWeights ==
  /\ scoring.state = "new"
  /\ scoring' = [scoring EXCEPT !.state =
                   IF ScoringWeights_post_init(scoring.weights)
                   THEN "constructed" ELSE "rejected"]
  /\ ScoringFrame

\* combined_score(semantic_score, fuzzy_score, code_match, unit_match, weights).
CombinedScore(semantic_score, fuzzy_score, code_match, unit_match) ==
  /\ scoring.state = "constructed"
  /\ scoring' = [scoring EXCEPT
                   !.state = "scored",
                   !.args = <<semantic_score, fuzzy_score, code_match, unit_match>>,
                   !.score = Some(combined_score(semantic_score, fuzzy_score,
                                                 code_match, unit_match,
                                                 scoring.weights))]
  /\ ScoringFrame

NextScoring ==
  \/ ConstructWeights
  \/ \E semantic_score \in SemanticInputs, fuzzy_score \in FuzzyInputs,
        code_match \in CodeMatchInputs, unit_match \in UnitMatchInputs :
       CombinedScore(semantic_score, fuzzy_score, code_match, unit_match)

SpecScoring == InitScoring /\ [][NextScoring]_vars

(***************************************************************************)
(* src/config/settings.py: get_settings and reload_settings over an         *)
(* environment that overrides none, one or both thresholds.                *)
(***************************************************************************)
MaxReloads == 1

ThresholdGrid == {-100, 0, 500, 6000, 6500, 7200, 7500, FULL, FULL + 100}

EnvValues == {None} \cup {Some(v) : v \in ThresholdGrid}

Envs == [MATCH_THRESHOLD : EnvValues, MATCH_AMBIGUOUS_THRESHOLD : EnvValues]

InitSettings ==
  /\ FAISS_AVAILABLE = FALSE
  /\ settings = None
  /\ reference_rubros = <<>>
  /\ phase = "off"
  /\ ops_left = 0
  /\ MatcherOff
  /\ CacheOff
  /\ scoring = NoScoring
  /\ config \in {[NoConfig EXCEPT !.state = "new", !.env = env] : env \in Envs}
  /\ helper = NoHelper

SettingsFrame ==
  UNCHANGED <<FAISS_AVAILABLE, reference_rubros, phase, use_faiss, faiss_index,
              last, ops_left, encode_calls, cache, cache_last, threads, scoring,
              helper>>

\* get_settings() while _settings is None: Settings() is built and kept, or
\* its ValidationError leaves _settings as it was.
GetSettings ==
  /\ settings = None
  /\ config.state = "new"
  /\ \E loaded \in {Settings_load(config.env)} :
       IF loaded.raised
       THEN /\ config' = [config EXCEPT !.state = "rejected"]
            /\ UNCHANGED settings
       ELSE /\ config' = [config EXCEPT !.state = "loaded"]
            /\ settings' = Val(loaded.settings)
  /\ SettingsFrame

\* reload_settings() after the environment changed to env.
ReloadSettings(env) ==
  /\ config.state # "new"
  /\ config.reloads < MaxReloads
  /\ \E loaded \in {Settings_load(env)} :
       IF loaded.raised
       THEN /\ config' = [state |-> "rejected", env |-> env,
                          reloads |-> config.reloads + 1]
            /\ UNCHANGED settings
       ELSE /\ config' = [state |-> "loaded", env |-> env,
                          reloads |-> config.reloads + 1]
            /\ settings' = Val(loaded.settings)
  /\ SettingsFrame

NextSettings ==
  \/ GetSettings
  \/ \E env \in Envs : ReloadSettings(env)

SpecSettings == InitSettings /\ [][NextSettings]_vars

(***************************************************************************)
(* One reference list handed to a matcher and still held by the caller:    *)
(* the caller builds another matcher over it, or shortens it.              *)
(***************************************************************************)
\* A second SemanticMatcher(reference_rubros, Embedder(model_name),
\* use_faiss_arg) over the list the first matcher holds; the second matcher's
\* own fields belong to an object no later step reads.
ConstructOther(model_name, use_faiss_arg) ==
  /\ phase = "built"
  /\ ops_left > 0
  /\ ops_left' = ops_left - 1
  /\ \E made \in {matcher_init(reference_rubros, model_name, use_faiss_arg,
                               FAISS_AVAILABLE, TRUE)} :
       /\ reference_rubros' = made.reference_rubros
       /\ last' = [NoCall EXCEPT !.op = "construct_other",
                                 !.use_faiss_arg = use_faiss_arg,
                                 !.raised = made.raised, !.exc = made.exc,
                                 !.log = made.log]
  /\ UNCHANGED <<FAISS_AVAILABLE, settings, phase, use_faiss, faiss_index,
                 encode_calls, cache, cache_last, threads, scoring, config, helper>>

\* The caller runs reference_rubros.pop() on its list.
CallerPop ==
  /\ phase = "built"
  /\ ops_left > 0
  /\ reference_rubros # <<>>
  /\ ops_left' = ops_left - 1
  /\ reference_rubros' = SubSeq(reference_rubros, 1, Len(reference_rubros) - 1)
  /\ UNCHANGED <<FAISS_AVAILABLE, settings, phase, use_faiss, faiss_index, last,
                 encode_calls, cache, cache_last, threads, scoring, config, helper>>

NextShared ==
  \/ \E use_faiss_arg \in BOOLEAN : Construct(use_faiss_arg, TRUE)
  \/ \E model_name \in {DEFAULT_MODEL, OTHER_MODEL}, use_faiss_arg \in BOOLEAN :
       ConstructOther(model_name, use_faiss_arg)
  \/ CallerPop
  \/ \E rubro \in Queries, elapsed \in ElapsedOnce :
       MatchSingle(rubro, top_k_default, TRUE, elapsed)

SpecShared == InitSession /\ [][NextShared]_vars

(***************************************************************************)
(* src/match/scoring.py and _refine_candidates: the signal functions, each *)
(* called once with arguments drawn from the sets below.                   *)
(***************************************************************************)
C_A01 == <<"A", ".", "0", "1">>

C_a01_padded == <<" ", "a", ".", "0", "1", " ">>

C_a01_spaced == <<"a", " ", ".", "0", "1">>

C_A02 == <<"A", ".", "0", "2">>

C_1_1 == <<"1", ".", "1">>

C_01_01_dashed == <<"0", "1", "-", "0", "1">>

C_O1_01 == <<"O", "1", ".", "0", "1">>

U_m2 == <<"m", "2">>

U_m_sup2 == <<"m", "sup2">>

U_m_sup3 == <<"m", "sup3">>

U_KG == <<"K", "G">>

U_kg_padded == <<" ", "k", "g">>

U_kilogramo == <<"k", "i", "l", "o", "g", "r", "a", "m", "o">>

U_und == <<"u", "n", "d">>

U_xyz == <<"x", "y", "z">>

CodeInputs ==
  { None, Some(<<>>), Some(C_0101), Some(<<" ">> \o C_0101), Some(C_0102),
    Some(C_A01), Some(C_a01_padded), Some(C_a01_spaced), Some(C_A02) }

UnitInputs ==
  { None, Some(U_m2), Some(<<"M", "2">>), Some(U_m_sup2), Some(<<"m", "^", "2">>),
    Some(U_kg), Some(U_KG), Some(U_kg_padded), Some(U_kilogramo),
    Some(<<"k", "g", "s">>), Some(U_u), Some(U_und), Some(U_xyz) }

\* Valid weight objects other than the default one.
OtherWeights ==
  { [semantic |-> 50, fuzzy |-> 30, code_match |-> 15, unit_match |-> 5],
    [semantic |-> 0, fuzzy |-> 71, code_match |-> 20, unit_match |-> 10] }

WeightArgs == {None} \cup {Some(w) : w \in OtherWeights}

\* Code spellings a document and a catalogue use for the same items.
RawQueryCodes == {C_0101, C_1_1, C_01_01_dashed, <<" ">> \o C_0101, C_O1_01, C_0201}

RawReferenceCodes == {C_0101, C_1_1, C_0201}

RawUnits == {U_m2, U_m3, U_und, U_kg, U_KG, U_xyz}

PairSemanticScores == {60, ONE}

Pending(fn, args) == [fn |-> fn, args |-> args, ret |-> None]

SignalCalls ==
  {Pending("code_similarity", [code1 |-> code1, code2 |-> code2]) : code1 \in CodeInputs, code2 \in CodeInputs}
  \cup {Pending("unit_similarity", [unit1 |-> unit1, unit2 |-> unit2]) : unit1 \in UnitInputs, unit2 \in UnitInputs}
  \cup {Pending("calculate_match_score",
                [et_description |-> d1, wbs_description |-> d2, et_code |-> c[1],
                 wbs_code |-> c[2], et_unit |-> u[1], wbs_unit |-> u[2],
                 semantic_score |-> None, weights |-> w]) :
          d1 \in {T_a, T_b}, d2 \in Descriptions,
          c \in {<<None, Some(C_0101)>>, <<Some(C_0101), Some(C_0101)>>,
                 <<Some(C_0102), Some(C_0101)>>},
          u \in {<<None, None>>, <<Some(U_kg), Some(U_KG)>>,
                 <<Some(U_kg), Some(U_kilogramo)>>},
          w \in WeightArgs}
  \cup {Pending("_refine_candidates",
                [codigo |-> codigo, unidad |-> unidad, wbs_code |-> wbs_code,
                 unit |-> unit,
                 rubro |-> Rubro("r1", codigo, T_a, unidad),
                 candidate |-> ReferenceRubro(wbs_code, description, unit),
                 semantic_score |-> semantic_score]) :
          codigo \in RawQueryCodes, unidad \in RawUnits,
          wbs_code \in RawReferenceCodes, unit \in {None} \cup {Some(u) : u \in RawUnits},
          description \in {T_a}, semantic_score \in PairSemanticScores}

HelperIdle ==
  /\ FAISS_AVAILABLE = FALSE
  /\ settings = DefaultSettings
  /\ reference_rubros = <<>>
  /\ phase = "off"
  /\ ops_left = 0
  /\ MatcherOff
  /\ CacheOff
  /\ scoring = NoScoring
  /\ config = NoConfig

HelperFrame ==
  UNCHANGED <<FAISS_AVAILABLE, settings, reference_rubros, phase, use_faiss,
              faiss_index, last, ops_left, encode_calls, cache, cache_last, threads,
              scoring, config>>

Returns(fn, value) ==
  /\ helper.fn = fn
  /\ helper.ret = None
  /\ helper' = [helper EXCEPT !.ret = Some(value)]
  /\ HelperFrame

InitSignals ==
  /\ HelperIdle
  /\ helper \in SignalCalls

CodeSimilarity ==
  /\ helper.fn = "code_similarity"
  /\ Returns("code_similarity", code_similarity(helper.args.code1, helper.args.code2))

UnitSimilarity ==
  /\ helper.fn = "unit_similarity"
  /\ Returns("unit_similarity", unit_similarity(helper.args.unit1, helper.args.unit2))

CalculateMatchScore ==
  /\ helper.fn = "calculate_match_score"
  /\ LET a == helper.args
     IN  Returns("calculate_match_score",
                 calculate_match_score(a.et_description, a.wbs_description,
                                       a.et_code, a.wbs_code, a.et_unit, a.wbs_unit,
                                       a.semantic_score, a.weights))

\* _refine_candidates over a corpus of one item that the search returned
\* with the given semantic score.
RefineCandidates ==
  /\ helper.fn = "_refine_candidates"
  /\ LET a == helper.args
         m == [reference_rubros |-> <<a.candidate>>]
     IN  Returns("_refine_candidates",
                 refine_candidates(m, a.rubro, <<0>>, <<a.semantic_score>>))

NextSignals ==
  \/ CodeSimilarity
  \/ UnitSimilarity
  \/ CalculateMatchScore
  \/ RefineCandidates

SpecSignals == InitSignals /\ [][NextSignals]_vars

(***************************************************************************)
(* src/parse/rubro_parser.py: normalizar_unidad called once with a unit as  *)
(* it is written in a document.                                            *)
(***************************************************************************)
\* Every spelling the parser lists, as listed.
ListedSpellings == UNION {UNIDADES_NORMALIZADAS[i].variantes : i \in 1..Len(UNIDADES_NORMALIZADAS)}

U_kg_dot == <<"k", "g", ".">>

U_custom == <<"u", "n", "i", "d", "a", "d", "_", "c", "u", "s", "t", "o", "m">>

\* Other ways of writing a listed spelling, and units the parser does not list.
WrittenSpellings ==
  { <<"M", "2">>, U_KG, <<"U", "N", "I", "D", "A", "D">>, <<"K", "g">>,
    U_kg_dot, <<"K", "G", ".">>, <<"m", "2", ".">>, <<"u", "n", "d", ".">>,
    <<" ", "k", "g", " ">>, U_xyz, U_custom }

ParserCalls ==
  {Pending("normalizar_unidad", [unidad_raw |-> u]) : u \in ListedSpellings \cup WrittenSpellings}

InitParse ==
  /\ HelperIdle
  /\ helper \in ParserCalls

NormalizarUnidad ==
  /\ helper.fn = "normalizar_unidad"
  /\ Returns("normalizar_unidad", normalizar_unidad(helper.args.unidad_raw))

NextParse == NormalizarUnidad

SpecParse == InitParse /\ [][NextParse]_vars

(***************************************************************************)
(* The dedupe engine called once on a list of parsed rubros.               *)
(***************************************************************************)
MaxRubros == 3

\* A Rubro as the parser builds it, found on one page.
ParsedRubro(rubro_id, codigo, descripcion, unidad, page) ==
  Rubro(rubro_id, codigo, descripcion, unidad)
    @@ [source_pages |-> <<page>>, confidence |-> ONE]

\* `rubro.codigo = ""`: a rubro whose code was removed after parsing.
WithoutCode(rubro) == [rubro EXCEPT !.codigo = <<>>]

\* Rubros of one document: an item, the same item written "1.1", an item
\* with the same code and another description, two items without a code that
\* share a description, and an unrelated item.
DedupePool ==
  << ParsedRubro("r1", C_0101, T_a, U_kg, 1),
     ParsedRubro("r2", C_1_1, T_a, U_kg, 2),
     ParsedRubro("r3", C_0101, T_b, U_kg, 3),
     WithoutCode(ParsedRubro("r4", C_0909, T_c, U_u, 4)),
     WithoutCode(ParsedRubro("r5", C_0909, T_c, U_u, 5)),
     ParsedRubro("r6", C_0201, T_d, U_m3, 6) >>

\* Lists of up to MaxRubros different rubros of the pool, in any order.
RubroLists ==
  {[k \in 1..Len(q) |-> DedupePool[q[k]]] :
     q \in {r \in SeqsUpTo(1..Len(DedupePool), MaxRubros) :
              \A a, b \in 1..Len(r) : a # b => r[a] # r[b]}}

Engines == [enable_merge : BOOLEAN, enable_split : BOOLEAN, enable_hash : BOOLEAN]

InitDedupe ==
  /\ HelperIdle
  /\ helper \in {Pending("deduplicate", [engine |-> engine, rubros |-> rubros]) :
                   engine \in Engines, rubros \in RubroLists}

Deduplicate ==
  /\ helper.fn = "deduplicate"
  /\ Returns("deduplicate", deduplicate(helper.args.engine, helper.args.rubros))

NextDedupe == Deduplicate

SpecDedupe == InitDedupe /\ [][NextDedupe]_vars

(***************************************************************************)
(* Properties.                                                             *)
(***************************************************************************)
MatchOps == {"match_single", "match_batch"}

\* The results the last matcher call returned, with their ranked evidences.
Outs == IF last.op \in MatchOps THEN last.outs ELSE <<>>

ResultOf(out) == Val(out.result)

\* The decision procedure as the specification words it; the ambiguity gap
\* and the manual-review floor are both MATCH_AMBIGUOUS_THRESHOLD.
C1_Status(evidences, MATCH_THRESHOLD, AMBIGUITY_GAP, AMBIGUOUS_FLOOR) ==
  LET best == evidences[1]
  IN  CASE best.combined_score >= MATCH_THRESHOLD ->
             IF /\ Len(evidences) >= 2
                /\ best.combined_score - evidences[2].combined_score < AMBIGUITY_GAP
             THEN "AMBIGUOUS" ELSE "MATCHED"
        [] best.combined_score < MATCH_THRESHOLD
           /\ best.combined_score >= AMBIGUOUS_FLOOR -> "MANUAL_REVIEW"
        [] OTHER -> "NO_MATCH"

C2_BatchAlwaysCompletes ==
  (last.op = "match_batch" /\ last.exc \in {"", "ProviderError"}) =>
    /\ ~last.raised
    /\ Len(last.outs) = Len(last.rubros)
    /\ \A i \in 1..Len(last.outs) :
         ResultOf(last.outs[i]).et_rubro_id = last.rubros[i].rubro_id

\* C3: over an empty reference corpus neither construction nor a query
\* raises, and every result is NO_MATCH with no best match and confidence 0.
C3_EmptyCorpusNoMatch ==
  (reference_rubros = <<>> /\ last.op # "none" /\ last.exc # "ProviderError") =>
    /\ ~last.raised
    /\ phase = "built"
    /\ \A i \in 1..Len(Outs) :
         /\ ResultOf(Outs[i]).status = "NO_MATCH"
         /\ ResultOf(Outs[i]).best_match = None
         /\ ResultOf(Outs[i]).confidence = 0

\* C4: whatever the interleaving of concurrent get_or_compute calls, the
\* provider is invoked at most once for each text, and every caller that has
\* returned holds the vector stored for its text.
C4_SingleFlight ==
  /\ \A text \in CacheTexts : encode_calls[text] <= 1
  /\ \A t \in Threads :
       threads[t].pc = "done" => threads[t].ret = cache[threads[t].text]

\* C5: a get_or_compute(text) step makes no provider call, changes nothing
\* and returns the stored vector when text is stored; when it is not, it calls
\* the provider exactly once for text, stores the vector under exactly that
\* key, leaves every other key alone and returns the vector.
C5_GetOrCompute ==
  [][ (cache_last'.op = "get_or_compute" /\ ops_left' # ops_left) =>
        LET text == cache_last'.text
        IN  IF cache[text] # None
            THEN /\ encode_calls' = encode_calls
                 /\ cache' = cache
                 /\ cache_last'.ret = cache[text]
            ELSE /\ encode_calls' = [encode_calls EXCEPT ![text] = @ + 1]
                 /\ cache' = [cache EXCEPT ![text] = Some(encode_single(text))]
                 /\ cache_last'.ret = Some(encode_single(text)) ]_vars

\* get_or_compute("A") missed and computed while "a" was stored with
\* another vector.
C5_Witness ==
  /\ cache_last.op = "get_or_compute"
  /\ cache_last.text = T_A
  /\ encode_calls[T_A] = 1
  /\ cache[T_a] # None
  /\ cache[T_A] = Some(encode_single(T_A))
  /\ cache[T_a] # cache[T_A]

\* C6: over any sequence of match_single / match_batch calls the provider
\* is called at most once for each distinct query description.
C6_EncodeOncePerDescription ==
  \A d \in Descriptions : encode_calls[d] <= 1

\* C7: when the best candidate scores below the floor the status is
\* NO_MATCH and the best field still carries the top-ranked evidence.
C7_RejectedBestAttached ==
  \A i \in 1..Len(Outs) :
    (/\ Outs[i].evidences # <<>>
     /\ Outs[i].evidences[1].combined_score < settings.MATCH_AMBIGUOUS_THRESHOLD) =>
      /\ ResultOf(Outs[i]).status = "NO_MATCH"
      /\ ResultOf(Outs[i]).best_match = Some(Outs[i].evidences[1])

\* C8: in every result, confidence is best.combined_score when best is
\* present and 0.0 when best is null.
C8_Confidence ==
  \A i \in 1..Len(Outs) :
    LET r == ResultOf(Outs[i])
    IN  IF r.best_match # None
        THEN r.confidence = Val(r.best_match).combined_score
        ELSE r.confidence = 0

\* C9: for n >= 1 ranked evidences, alternatives is the evidences ranked
\* 2nd to 4th in ranked order: min(3, n-1) of them, none of them the
\* top-ranked evidence, none at all when n < 2.
C9_Alternatives ==
  \A i \in 1..Len(Outs) :
    LET evidences == Outs[i].evidences
        n == Len(evidences)
        alternatives == ResultOf(Outs[i]).alternative_matches
    IN  n >= 1 =>
          /\ Len(alternatives) = Min(3, n - 1)
          /\ \A j \in 1..Len(alternatives) :
               /\ alternatives[j] = evidences[j + 1]
               /\ alternatives[j] # evidences[1]
          /\ (n < 2 => alternatives = <<>>)

\* A result built from five ranked evidences: the bound of three cuts.
C9_Witness ==
  \E i \in 1..Len(Outs) :
    /\ Len(Outs[i].evidences) >= 5
    /\ Len(ResultOf(Outs[i]).alternative_matches) = 3

\* C10: with weights that constructed successfully and inputs in range,
\* combined_score lies in [0, 1].
C10_ScoreInUnitInterval ==
  scoring.state = "scored" =>
    (0 <= Val(scoring.score) /\ Val(scoring.score) <= FULL)

\* The tolerance the validation allows around 1.0.
C11_SumsToOne(w) ==
  LET total == w.semantic + w.fuzzy + w.code_match + w.unit_match
  IN  ONE - 1 <= total /\ total <= ONE + 1

\* C11: constructing ScoringWeights raises ValueError whenever the four
\* weights do not sum to 1.0 within the tolerance and succeeds whenever they
\* do; no scoring call is made with weights that failed the check.
C11_WeightsValidated ==
  /\ scoring.state = "rejected" => ~C11_SumsToOne(scoring.weights)
  /\ scoring.state \in {"constructed", "scored"} => C11_SumsToOne(scoring.weights)
  /\ scoring.state = "scored" => ScoringWeights_post_init(scoring.weights)

\* Weights that miss 1.0 by a few hundredths were rejected.
C11_Witness ==
  /\ scoring.state = "rejected"
  /\ LET total == scoring.weights.semantic + scoring.weights.fuzzy
                  + scoring.weights.code_match + scoring.weights.unit_match
     IN  total \in (ONE - 5)..(ONE - 2)

C12_Ordered(st) ==
  /\ 0 <= st.MATCH_AMBIGUOUS_THRESHOLD
  /\ st.MATCH_AMBIGUOUS_THRESHOLD < st.MATCH_THRESHOLD
  /\ st.MATCH_THRESHOLD <= FULL

\* The two values an environment asks for: its overrides over the defaults.
C12_Asked(env) ==
  [MATCH_THRESHOLD |->
     IF env.MATCH_THRESHOLD = None THEN DEFAULT_MATCH_THRESHOLD
     ELSE Val(env.MATCH_THRESHOLD),
   MATCH_AMBIGUOUS_THRESHOLD |->
     IF env.MATCH_AMBIGUOUS_THRESHOLD = None THEN DEFAULT_MATCH_AMBIGUOUS_THRESHOLD
     ELSE Val(env.MATCH_AMBIGUOUS_THRESHOLD)]

\* C12: every Settings object that loads satisfies
\* 0 <= MATCH_AMBIGUOUS_THRESHOLD < MATCH_THRESHOLD <= 1, whichever of the two
\* values the environment overrides; a configuration violating this is
\* rejected when it is loaded, and one satisfying it loads as asked.
C12_ThresholdsOrdered ==
  /\ settings # None => C12_Ordered(settings)
  /\ config.state = "loaded" =>
       (C12_Ordered(C12_Asked(config.env)) /\ settings = C12_Asked(config.env))
  /\ config.state = "rejected" => ~C12_Ordered(C12_Asked(config.env))

\* Only MATCH_THRESHOLD was overridden, to a value below the default
\* MATCH_AMBIGUOUS_THRESHOLD, and the load was rejected.
C12_Witness ==
  /\ config.state = "rejected"
  /\ config.env.MATCH_THRESHOLD # None
  /\ config.env.MATCH_AMBIGUOUS_THRESHOLD = None
  /\ threshold_in_range(Val(config.env.MATCH_THRESHOLD))
  /\ Val(config.env.MATCH_THRESHOLD) <= DEFAULT_MATCH_AMBIGUOUS_THRESHOLD

\* C13: every search over a corpus of n items with top_k = k returns
\* min(k, n) candidates, each a distinct valid corpus index paired with that
\* item's own similarity to the query, in non-increasing similarity order, no
\* omitted item being more similar than a returned one, on either backend.
C13_SearchTopK ==
  \A i \in 1..Len(last.searches) :
    LET found == last.searches[i]
        n == Len(reference_rubros)
        query == embedder_encode(DEFAULT_MODEL, last.rubros[i].descripcion)
        similarity(idx) == dot(Val(reference_rubros[idx + 1].embedding), query)
        returned == 1..Len(found.indices)
    IN  /\ Len(found.indices) = Min(last.top_k, n)
        /\ Len(found.scores) = Len(found.indices)
        /\ \A a \in returned : found.indices[a] \in 0..(n - 1)
        /\ \A a, b \in returned : a # b => found.indices[a] # found.indices[b]
        /\ \A a \in returned : found.scores[a] = similarity(found.indices[a])
        /\ \A a, b \in returned : a < b => found.scores[a] >= found.scores[b]
        /\ \A idx \in 0..(n - 1) :
             (\A a \in returned : found.indices[a] # idx) =>
               \A a \in returned : similarity(idx) <= found.scores[a]

\* The corpus size above which the approximate index is meant to be used.
C14_CorpusThreshold == 1000

\* C14: the FAISS backend is selected only when the corpus holds more items
\* than the threshold; at or below it every search uses the linear scan.
C14_FaissOnlyAboveThreshold ==
  Len(reference_rubros) <= C14_CorpusThreshold =>
    /\ phase = "built" => ~use_faiss
    /\ \A i \in 1..Len(last.searches) : last.searches[i].backend = "linear"

\* C15: when the FAISS library is unavailable and the constructor was asked
\* for it, construction succeeds, every later search uses the linear scan, and
\* the fallback is logged.
C15_FallbackLogged ==
  ~FAISS_AVAILABLE =>
    /\ (last.op = "construct" /\ last.use_faiss_arg /\ last.exc # "ProviderError"
        /\ reference_rubros # <<>>) =>
         /\ ~last.raised
         /\ phase = "built"
         /\ \E i \in 1..Len(last.log) : last.log[i] = LOG_FAISS_FALLBACK
    /\ phase = "built" => ~use_faiss
    /\ \A i \in 1..Len(last.searches) : last.searches[i].backend = "linear"

C17_SearchSeen(m, rubro) ==
  search_semantic(m, embedder_encode(m.model_name, rubro.descripcion), top_k_default)

C17_Embeddings(rubros) == [i \in 1..Len(rubros) |-> rubros[i].embedding]

\* C17: once a matcher is built over a reference list, no step (another
\* matcher built over the same items, the caller changing its list) changes
\* the embeddings or the search results that matcher sees.
C17_ItemsOwnedByIndex ==
  [][ (phase = "built" /\ phase' = "built") =>
        /\ C17_Embeddings(reference_rubros') = C17_Embeddings(reference_rubros)
        /\ \A rubro \in Queries :
             C17_SearchSeen(Self', rubro) = C17_SearchSeen(Self, rubro) ]_vars

\* Position of an evidence's reference item in the retrieval order.
C18_Retrieved(out, e) ==
  CHOOSE a \in 1..Len(out.search.indices) :
    PyIndex(reference_rubros, out.search.indices[a]).wbs_code = e.wbs_code

\* C18: the ranked evidences are in non-increasing combined_score order, and
\* evidences with equal combined_score keep their relative retrieval order.
C18_RankStable ==
  \A i \in 1..Len(Outs) :
    LET evidences == Outs[i].evidences
    IN  /\ Len(evidences) = Len(Outs[i].search.indices)
        /\ \A a, b \in 1..Len(evidences) :
             a < b =>
               /\ evidences[a].combined_score >= evidences[b].combined_score
               /\ evidences[a].combined_score = evidences[b].combined_score =>
                    C18_Retrieved(Outs[i], evidences[a])
                      < C18_Retrieved(Outs[i], evidences[b])

\* Two evidences tie, and the one retrieved first is a later list item.
C18_Witness ==
  \E i \in 1..Len(Outs) :
    /\ Len(Outs[i].evidences) >= 2
    /\ Outs[i].evidences[1].combined_score = Outs[i].evidences[2].combined_score
    /\ Outs[i].search.indices[1] > Outs[i].search.indices[2]

\* A call that repeats the call before it, both having returned.
C19_SameCallAgain ==
  /\ ops_left' # ops_left
  /\ last.op \in MatchOps
  /\ last'.op = last.op
  /\ last'.rubros = last.rubros
  /\ last'.top_k = last.top_k
  /\ ~last.raised
  /\ ~last'.raised

C19_Timeless(result) == [Val(result) EXCEPT !.processing_time_ms = 0]

C20_InclusiveThreshold ==
  \A i \in 1..Len(Outs) :
    (/\ Outs[i].evidences # <<>>
     /\ Outs[i].evidences[1].combined_score = settings.MATCH_THRESHOLD) =>
      ResultOf(Outs[i]).status \in {"MATCHED", "AMBIGUOUS"}

\* A result whose best evidence scored exactly MATCH_THRESHOLD.
C20_Witness ==
  \E i \in 1..Len(Outs) :
    /\ Outs[i].evidences # <<>>
    /\ Outs[i].evidences[1].combined_score = settings.MATCH_THRESHOLD
    /\ ResultOf(Outs[i]).best_match = Some(Outs[i].evidences[1])

\* The value a helper call returned.
Returned(fn) == helper.fn = fn /\ helper.ret # None

\* Two code strings read the same once blanks are skipped and letter case
\* is ignored.
RECURSIVE C21_SameCode(_, _)
C21_SameCode(a, b) ==
  IF a # <<>> /\ Head(a) = " " THEN C21_SameCode(Tail(a), b)
  ELSE IF b # <<>> /\ Head(b) = " " THEN C21_SameCode(a, Tail(b))
  ELSE IF a = <<>> \/ b = <<>> THEN a = b
  ELSE LowerChar(Head(a)) = LowerChar(Head(b)) /\ C21_SameCode(Tail(a), Tail(b))

C22_KnownPairs ==
  {{compatible_pairs[i][1], compatible_pairs[i][2]} : i \in 1..Len(compatible_pairs)}

\* The value for two units already brought to the form they are compared in.
C22_Value(a, b) ==
  IF a = b THEN ONE
  ELSE IF {a, b} \in C22_KnownPairs THEN ONE \div 2
  ELSE 0

\* A unit without the blanks around it.
C22_Trim(u) ==
  LET inked == {i \in 1..Len(u) : u[i] # " "}
  IN  IF inked = {} THEN <<>>
      ELSE SubSeq(u, CHOOSE i \in inked : \A j \in inked : i <= j,
                     CHOOSE i \in inked : \A j \in inked : i >= j)

C23_Spelling(unidad_raw) ==
  LET u == lower(C22_Trim(unidad_raw))
  IN  IF u # <<>> /\ u[Len(u)] = "." THEN SubSeq(u, 1, Len(u) - 1) ELSE u

\* C23: normalizar_unidad maps every spelling variant of a unit, in any
\* letter case and with the point of an abbreviation ("kg."), to the unit's
\* canonical form, and returns a unit it does not know unchanged.
C23_Canonical ==
  Returned("normalizar_unidad") =>
    LET unidad_raw == helper.args.unidad_raw
        known == {i \in 1..Len(UNIDADES_NORMALIZADAS) :
                    C23_Spelling(unidad_raw) \in UNIDADES_NORMALIZADAS[i].variantes}
    IN  IF known # {}
        THEN \E i \in known : Val(helper.ret) = UNIDADES_NORMALIZADAS[i].unidad_norm
        ELSE Val(helper.ret) = unidad_raw

\* C24: when no semantic score is given, calculate_match_score uses the
\* normalized fuzzy score in its place: the combined score is
\* (w_semantic + w_fuzzy) * fuzzy/100 + w_code * code_match + w_unit * unit_match
\* and the method is "code" or "hybrid", never "semantic" or "fuzzy".
C24_FuzzyProxy ==
  (Returned("calculate_match_score") /\ helper.args.semantic_score = None) =>
    LET a == helper.args
        w == IF a.weights = None THEN DefaultWeights ELSE Val(a.weights)
        fuzzy == fuzzy_similarity(a.et_description, a.wbs_description)
        code_match == code_similarity(a.et_code, a.wbs_code)
        unit_match == unit_similarity(a.et_unit, a.wbs_unit)
    IN  /\ Val(helper.ret).score =
             (w.semantic + w.fuzzy) * ((fuzzy * ONE) \div 100)
             + w.code_match * code_match + w.unit_match * unit_match
        /\ Val(helper.ret).method \in {"code", "hybrid"}

\* A pair of different descriptions and different codes, scored without a
\* semantic score under weights other than the default ones.
C24_Witness ==
  /\ Returned("calculate_match_score")
  /\ helper.args.semantic_score = None
  /\ helper.args.weights # None
  /\ fuzzy_similarity(helper.args.et_description, helper.args.wbs_description) \in 1..99
  /\ Val(helper.ret).method = "hybrid"
  /\ Val(helper.ret).score > 0

\* The evidence _refine_candidates built for the one candidate it was given.
RefinedEvidence == Val(helper.ret).evidences[1]

\* The fused score of the refined pair if its code and unit signals were as given.
FusedWith(code_match, unit_match) ==
  LET a == helper.args
  IN  combined_score(a.semantic_score,
                     fuzzy_similarity(a.rubro.descripcion, a.candidate.description),
                     code_match, unit_match, DefaultWeights)

\* C25: whenever normalize_rubro_code(query code) equals the reference
\* item's normalized wbs_code, the candidate's code_match signal in the fused
\* score is 1.0.
C25_SharedNormalization ==
  (/\ Returned("_refine_candidates")
   /\ ~Val(helper.ret).raised
   /\ normalize_rubro_code(helper.args.rubro.codigo) = helper.args.candidate.wbs_code) =>
    /\ RefinedEvidence.combined_score =
         FusedWith(ONE, unit_similarity(Some(helper.args.rubro.unidad),
                                        helper.args.candidate.unit))
    /\ RefinedEvidence.match_method = "code"

\* C29: in the matcher, a query item and a reference item that were given
\* the same unit string (ignoring case) receive unit_match 1.0 in the fused
\* score, for every unit including "m2", "m3" and "und".
C29_SameUnitGiven ==
  (/\ Returned("_refine_candidates")
   /\ ~Val(helper.ret).raised
   /\ helper.args.unit # None
   /\ lower(helper.args.unidad) = lower(Val(helper.args.unit))) =>
    RefinedEvidence.combined_score =
      FusedWith(code_similarity(Some(helper.args.rubro.codigo),
                                Some(helper.args.candidate.wbs_code)), ONE)

\* The combined scores of a result's ranked evidences, best first.
RankedScores(out) == [k \in 1..Len(out.evidences) |-> out.evidences[k].combined_score]

\* C26: with default settings a best candidate scoring at least
\* MATCH_THRESHOLD is reported AMBIGUOUS exactly when is_ambiguous holds of the
\* ranked scores (runner-up within 0.05 of the best), and MATCHED otherwise.
C26_AmbiguityAgrees ==
  \A i \in 1..Len(Outs) :
    (/\ settings = DefaultSettings
     /\ Outs[i].evidences # <<>>
     /\ Outs[i].evidences[1].combined_score >= settings.MATCH_THRESHOLD) =>
      ResultOf(Outs[i]).status =
        (IF is_ambiguous(RankedScores(Outs[i]), DEFAULT_THRESHOLD_DIFF)
         THEN "AMBIGUOUS" ELSE "MATCHED")

\* The last call was a match_single that reached the search on the FAISS path.
C27_AskedFaiss ==
  /\ last.op = "match_single"
  /\ phase = "built"
  /\ use_faiss
  /\ last.exc # "ProviderError"

\* The same call answered by the linear scan of the same matcher.
C27_LinearAnswer ==
  match_single([Self EXCEPT !.use_faiss = FALSE], last.rubros[1], last.top_k, TRUE,
               IF last.raised THEN 0 ELSE ResultOf(last.outs[1]).processing_time_ms)

\* C27: for the same corpus, query and k the FAISS path and the linear scan
\* make match_single return the same status and the same best match, also
\* when the corpus has fewer than k items.
C27_BackendsAgree ==
  C27_AskedFaiss =>
    /\ last.raised = C27_LinearAnswer.raised
    /\ ~last.raised =>
         /\ ResultOf(last.outs[1]).status = Val(C27_LinearAnswer.result).status
         /\ ResultOf(last.outs[1]).best_match = Val(C27_LinearAnswer.result).best_match

\* C28: over a non-empty corpus match_single returns a MatchResult without
\* raising for every well-formed query, whatever similarities the retrieval
\* step produces.  The corpus holds at least top_k items here, so every
\* retrieved candidate is a corpus item with its own dot product.
C28_NeverRaises ==
  (/\ last.op = "match_single"
   /\ phase = "built"
   /\ last.exc # "ProviderError"
   /\ Len(reference_rubros) >= 1
   /\ Len(reference_rubros) >= last.top_k) =>
    /\ ~last.raised
    /\ Len(last.outs) = 1

\* C30: after DedupeEngine.deduplicate with merge, split and hash all
\* enabled, no two rubros of the returned list carry the same codigo,
\* whatever the input list.
C30_UniqueCodes ==
  (/\ Returned("deduplicate")
   /\ helper.args.engine.enable_merge
   /\ helper.args.engine.enable_split
   /\ helper.args.engine.enable_hash) =>
    LET resolved_rubros == Val(helper.ret).resolved_rubros
    IN  \A a, b \in 1..Len(resolved_rubros) :
          a # b => resolved_rubros[a].codigo # resolved_rubros[b].codigo

====
